---- MODULE Spec2Model ----
(***************************************************************************)
(* Configuration engine of autokernel: the symbol model (Symbol::set_value *)
(* and friends), the expression algebra, the satisfier, the transaction    *)
(* journal and the script frontends that drive them.  The kernel's Kconfig *)
(* library behind the bridge vtable is modelled for boolean/tristate       *)
(* symbols (visibility, reverse dependencies, defaults, user values).      *)
(***************************************************************************)
EXTENDS Integers, Sequences, FiniteSets, TLC

(***************************************************************************)
(* Tristate (bridge/types.rs): the ordered domain No < Mod < Yes.          *)
(***************************************************************************)
No == 0
Mod == 1
Yes == 2

Tristates == {No, Mod, Yes}

\* Tristate::invert
Invert(t) == IF t = No THEN Yes ELSE IF t = Yes THEN No ELSE Mod

\* impl From<bool> for Tristate
FromBool(b) == IF b THEN Yes ELSE No

\* impl FromStr for Tristate; the string is a sequence of characters.
\* The result is a sequence: <<t>> on success, <<>> on Err(()).
ParseTristate(s) ==
    IF s = <<"n">> THEN <<No>>
    ELSE IF s = <<"m">> THEN <<Mod>>
    ELSE IF s = <<"y">> THEN <<Yes>>
    ELSE <<>>

TMin(a, b) == IF a < b THEN a ELSE b
TMax(a, b) == IF a > b THEN a ELSE b

(***************************************************************************)
(* Expressions (bridge/expr.rs).  NoExpr stands for a null expression      *)
(* pointer on the C side (Option::None after conversion).                  *)
(***************************************************************************)
NoExpr == [k |-> "None"]
EConst(b) == [k |-> "Const", b |-> b]
ESym(s) == [k |-> "Symbol", a |-> s]
ENeq(a, b) == [k |-> "Neq", a |-> a, b |-> b]
ENot(e) == [k |-> "Not", l |-> e]
EAnd(l, r) == [k |-> "And", l |-> l, r |-> r]
EOr(l, r) == [k |-> "Or", l |-> l, r |-> r]

CompareKinds == {"Eq", "Neq", "Lth", "Leq", "Gth", "Geq"}

\* Expr::or_clauses
RECURSIVE OrClauses(_)
OrClauses(e) ==
    IF e.k = "Or" THEN OrClauses(e.l) \o OrClauses(e.r) ELSE <<e>>

\* Expr::and_clauses
RECURSIVE AndClauses(_)
AndClauses(e) ==
    IF e.k = "And" THEN AndClauses(e.l) \o AndClauses(e.r) ELSE <<e>>

(***************************************************************************)
(* The schema: the symbols the bridge enumerates.  KY, KM and KN are the   *)
(* constant symbols y, m and n; CH is an unnamed choice container; U is a  *)
(* symbol declared without a type; I and H are an int and a hex symbol;    *)
(* INITRAMFS_SOURCE is a string symbol and BLK_DEV_INITRD a boolean, the   *)
(* two symbols the build command looks up.                                 *)
(***************************************************************************)
Syms == {"MODULES", "A", "B", "C", "KY", "KM", "KN", "CH", "U", "I", "H",
         "INITRAMFS_SOURCE", "BLK_DEV_INITRD"}

TriTypes == {"Boolean", "Tristate"}
IntTypes == {"Int", "Hex", "Unknown"}

Plain(type) ==
    [named |-> TRUE, type |-> type, const |-> FALSE, choice |-> FALSE,
     prompts |-> 1, vis |-> NoExpr, rev |-> NoExpr, dflt |-> No,
     imin |-> 0, imax |-> 0, sdflt |-> <<>>, present |-> TRUE]

KConst(t) == [Plain("Tristate") EXCEPT !.const = TRUE, !.prompts = 0, !.dflt = t]

\* The symbols every schema declares; those marked absent are declared by
\* SchemaTypes alone.
Base ==
    [s \in Syms |->
        CASE s = "KY" -> KConst(Yes)
          [] s = "KM" -> KConst(Mod)
          [] s = "KN" -> KConst(No)
          [] s = "CH" -> [Plain("Boolean") EXCEPT !.named = FALSE, !.choice = TRUE,
                                                  !.present = FALSE]
          [] s = "U" -> [Plain("Unknown") EXCEPT !.present = FALSE]
          [] s = "I" -> [Plain("Int") EXCEPT !.imin = 1, !.imax = 4,
                                             !.sdflt = <<"2">>, !.present = FALSE]
          [] s = "H" -> [Plain("Hex") EXCEPT !.sdflt = <<"0", "x", "0">>,
                                             !.present = FALSE]
          [] s = "INITRAMFS_SOURCE" -> [Plain("String") EXCEPT !.present = FALSE]
          [] s = "BLK_DEV_INITRD" -> [Plain("Boolean") EXCEPT !.present = FALSE]
          [] OTHER -> Plain("Boolean")]

\* C depends on A && B, all three have prompts.
SchemaAnd ==
    [Base EXCEPT !["C"].vis = EAnd(ESym("A"), ESym("B"))]

\* A depends on B, B depends on C.
SchemaChain ==
    [Base EXCEPT !["A"].vis = ESym("B"),
                 !["B"].vis = ESym("C")]

\* A selects the promptless B; C depends on B.
SchemaSelect ==
    [Base EXCEPT !["B"].prompts = 0,
                 !["B"].rev = ESym("A"),
                 !["C"].vis = ESym("B")]

\* A depends on !B; C (default y) selects B, which has a prompt too.
SchemaNotSelected ==
    [Base EXCEPT !["A"].vis = ENot(ESym("B")),
                 !["B"].rev = ESym("C"),
                 !["C"].dflt = Yes]

\* The promptless A is selected by B and by C; MODULES depends on A.
SchemaAmbiguous ==
    [Base EXCEPT !["A"].prompts = 0,
                 !["A"].rev = EOr(ESym("B"), ESym("C")),
                 !["MODULES"].vis = ESym("A")]

\* bool "A" if B, default y: A keeps its default while its prompt is hidden.
SchemaExpert ==
    [Base EXCEPT !["A"].vis = ESym("B"),
                 !["A"].dflt = Yes]

\* A depends on B but is selected by C.
SchemaUnmet ==
    [Base EXCEPT !["A"].vis = ESym("B"),
                 !["A"].rev = ESym("C")]

\* Tristate symbols: B depends on A, C depends on B != y.
SchemaTristate ==
    [Base EXCEPT !["A"].type = "Tristate",
                 !["B"].type = "Tristate",
                 !["B"].vis = ESym("A"),
                 !["C"].type = "Tristate",
                 !["C"].vis = ENeq("B", "KY")]

\* As SchemaTristate, with module support enabled by default.
SchemaModules ==
    [SchemaTristate EXCEPT !["MODULES"].dflt = Yes]

\* Symbols of every type and flag; A is a tristate, B a promptless boolean,
\* C is not declared.
SchemaTypes ==
    [s \in Syms |->
        CASE s \in {"CH", "U", "I", "H", "INITRAMFS_SOURCE", "BLK_DEV_INITRD"} ->
                [Base[s] EXCEPT !.present = TRUE]
          [] s = "A" -> [Base[s] EXCEPT !.type = "Tristate"]
          [] s = "B" -> [Base[s] EXCEPT !.prompts = 0]
          [] s = "C" -> [Base[s] EXCEPT !.present = FALSE]
          [] OTHER -> Base[s]]

\* As SchemaTypes, with the ranges exchanged: the int symbol declares no
\* range, the hex symbol the range 0x2..0x9.
SchemaRanges ==
    [SchemaTypes EXCEPT !["I"].imin = 0, !["I"].imax = 0,
                        !["H"].imin = 2, !["H"].imax = 9,
                        !["H"].sdflt = <<"0", "x", "2">>]

\* Tristates with modules enabled: A depends on B && C, B depends on !C,
\* and C defaults to m.
SchemaOpposed ==
    [SchemaModules EXCEPT !["A"].vis = EAnd(ESym("B"), ESym("C")),
                          !["B"].vis = ENot(ESym("C")),
                          !["C"].vis = NoExpr,
                          !["C"].dflt = Mod]

\* As SchemaOpposed, with C promptless.
SchemaConflict ==
    [SchemaOpposed EXCEPT !["C"].prompts = 0]

Schemas ==
    <<SchemaTypes, SchemaAnd, SchemaChain, SchemaSelect, SchemaNotSelected, SchemaAmbiguous,
      SchemaExpert, SchemaUnmet, SchemaTristate, SchemaModules, SchemaRanges,
      SchemaOpposed, SchemaConflict>>


(***************************************************************************)
(* The Kconfig library behind the bridge vtable (sym_calc_value,           *)
(* sym_set_tristate_value, sym_set_string_value, sym_get_string_value).    *)
(* u is the user value of each symbol (<<>> when the user gave none), us   *)
(* the user string of each int/hex/string symbol.                          *)
(***************************************************************************)
Compare(k, x, y) ==
    CASE k = "Eq" -> x = y
      [] k = "Neq" -> x # y
      [] k = "Lth" -> x < y
      [] k = "Leq" -> x <= y
      [] k = "Gth" -> x > y
      [] k = "Geq" -> x >= y

\* mod counts as yes where the symbol cannot be a module.
PromoteMod(t, promote) == IF t = Mod /\ promote THEN Yes ELSE t

\* The value sym_calc_value gives a boolean/tristate symbol: the user value
\* while the prompt is visible, else the default; never below the reverse
\* dependencies.
KCalc(vis, rev, uv, dflt) ==
    TMax(IF vis # No /\ uv # <<>> THEN TMin(uv[1], vis) ELSE dflt, rev)

RECURSIVE KTri(_, _, _)
RECURSIVE KEval(_, _, _)

\* expr_calc_value: evaluates on freshly calculated symbol values.
KEval(e, sch, u) ==
    CASE e.k = "None" -> Yes
      [] e.k = "Const" -> FromBool(e.b)
      [] e.k = "Symbol" -> KTri(e.a, sch, u)
      [] e.k = "Not" -> Invert(KEval(e.l, sch, u))
      [] e.k = "And" -> TMin(KEval(e.l, sch, u), KEval(e.r, sch, u))
      [] e.k = "Or" -> TMax(KEval(e.l, sch, u), KEval(e.r, sch, u))
      [] e.k \in CompareKinds ->
            FromBool(Compare(e.k, KTri(e.a, sch, u), KTri(e.b, sch, u)))

\* sym_get_type: a tristate symbol is a boolean while modules are disabled.
KType(s, sch, u) ==
    IF sch[s].type = "Tristate" /\ s # "MODULES" /\ ~sch[s].const
       /\ KTri("MODULES", sch, u) = No
    THEN "Boolean"
    ELSE sch[s].type

\* sym_calc_visibility: the visibility of the symbol's prompts.
KVisible(s, sch, u) ==
    IF sch[s].prompts = 0 THEN No
    ELSE PromoteMod(KEval(sch[s].vis, sch, u), KType(s, sch, u) # "Tristate")

\* sym_calc_visibility: the value of the reverse dependencies (selects).
KRev(s, sch, u) ==
    IF sch[s].rev.k = "None" THEN No
    ELSE PromoteMod(KEval(sch[s].rev, sch, u), KType(s, sch, u) = "Boolean")

\* sym_calc_value for a boolean/tristate symbol.
KTri(s, sch, u) ==
    IF sch[s].const \/ sch[s].type \notin TriTypes THEN sch[s].dflt
    ELSE PromoteMod(KCalc(KVisible(s, sch, u), KRev(s, sch, u), u[s], sch[s].dflt),
                    KType(s, sch, u) = "Boolean")

\* sym_tristate_within_range on the calculated fields of the symbol.
WithinRange(val, vis, rev, type) ==
    /\ vis # No
    /\ type \in TriTypes
    /\ ~(type = "Boolean" /\ val = Mod)
    /\ vis > rev
    /\ val >= rev
    /\ val <= vis

\* sym_set_tristate_value: whether the library accepts the write.
KSetTristateAccepts(s, val, sch, u) ==
    \/ KTri(s, sch, u) = val
    \/ WithinRange(val, KVisible(s, sch, u), KRev(s, sch, u), KType(s, sch, u))


(***************************************************************************)
(* Numbers and strings.  Strings are sequences of characters; u64 is       *)
(* modelled with the maximum U64Max.                                       *)
(***************************************************************************)
U64Max == 255

Digits == <<"0", "1", "2", "3", "4", "5", "6", "7", "8", "9",
            "a", "b", "c", "d", "e", "f">>

\* char::to_digit: <<d>> when c is a digit of the radix, else <<>>
ToDigit(c, radix) ==
    LET hit == {i \in 1..radix : Digits[i] = c} IN
    IF hit = {} THEN <<>> ELSE <<(CHOOSE i \in hit : TRUE) - 1>>

RECURSIVE ParseDigits(_, _, _)

\* One step of the parse: the digit d (or <<>>) joins the accumulator.
ParseNext(d, rest, radix, acc) ==
    IF d = <<>> THEN <<>>
    ELSE IF acc * radix + d[1] > U64Max THEN <<>>
    ELSE ParseDigits(rest, radix, acc * radix + d[1])

ParseDigits(s, radix, acc) ==
    IF s = <<>> THEN <<acc>>
    ELSE ParseNext(ToDigit(Head(s), radix), Tail(s), radix, acc)

\* u64::from_str_radix (and str::parse::<u64> for radix 10): <<n>> or <<>>.
\* An empty string is an error; one leading "+" is accepted.
FromStrRadix(s, radix) ==
    IF s = <<>> THEN <<>>
    ELSE IF Head(s) = "+"
    THEN IF Tail(s) = <<>> THEN <<>> ELSE ParseDigits(Tail(s), radix, 0)
    ELSE ParseDigits(s, radix, 0)

RECURSIVE FormatRadix(_, _)
FormatRadix(n, radix) ==
    IF n < radix THEN <<Digits[n + 1]>>
    ELSE FormatRadix(n \div radix, radix) \o <<Digits[(n % radix) + 1]>>


(***************************************************************************)
(* SymbolValue (bridge/types.rs)                                           *)
(***************************************************************************)
VAuto(s) == [arm |-> "Auto", v |-> s]
VBoolean(b) == [arm |-> "Boolean", v |-> b]
VTristate(t) == [arm |-> "Tristate", v |-> t]
VInt(n) == [arm |-> "Int", v |-> n]
VHex(n) == [arm |-> "Hex", v |-> n]
VNumber(n) == [arm |-> "Number", v |-> n]
VString(s) == [arm |-> "String", v |-> s]


(***************************************************************************)
(* State.  sid selects the loaded schema.  user and ustr are the values    *)
(* the Kconfig library stores per symbol (def[S_DEF_USER]); tri, visible   *)
(* and revtri are the calculated fields of CSymbol that the engine reads   *)
(* (current_value.tri, visible, reverse_dependencies.tri).  history is     *)
(* Bridge::history.  last records the latest engine call and its outcome.  *)
(***************************************************************************)
VARIABLES sid, user, ustr, tri, visible, revtri, history, last, pc, run

\* Schemas with a dependency cycle: A depends on B and B on A; A depends on
\* itself; A depends on the promptless B, which A selects.  An upstream
\* Kconfig parser refuses them (recursive dependency detected); they stand
\* for a library that loads them, and only the satisfier runs on them.
CyclicSchemas ==
    <<[Base EXCEPT !["A"].vis = ESym("B"), !["B"].vis = ESym("A")],
      [Base EXCEPT !["A"].vis = ESym("A")],
      [Base EXCEPT !["A"].vis = ESym("B"), !["B"].prompts = 0,
                   !["B"].rev = ESym("A")]>>

Sch ==
    IF sid <= Len(Schemas) THEN Schemas[sid]
    ELSE CyclicSchemas[sid - Len(Schemas)]

\* The C side as one value: what the engine operations read and write.
CS == [u |-> user, us |-> ustr, tri |-> tri, vis |-> visible, rev |-> revtri]

\* Bridge::symbols
SymbolsOf(sch) == {s \in Syms : sch[s].present}

\* Bridge::name_to_symbol: named symbols whose type is not Unknown
NameToSymbol(sch) ==
    {s \in SymbolsOf(sch) : sch[s].named /\ sch[s].type # "Unknown"}

\* Symbol::recalculate: sym_calc_value refreshes the fields of one symbol.
Recalculate(s, sch, c) ==
    [c EXCEPT !.tri[s] = KTri(s, sch, c.u),
              !.vis[s] = KVisible(s, sch, c.u),
              !.rev[s] = KRev(s, sch, c.u)]

\* The symbols the sweep visits: not const, named.
SweepTargets(sch) ==
    {s \in SymbolsOf(sch) : ~sch[s].const /\ sch[s].named}

\* A sweep that recalculates nothing (a faulty variant).
NoSweep(sch, c) == c

\* Bridge::recalculate_all_symbols
RecalculateAllSymbols(sch, c) ==
    LET T == SweepTargets(sch) IN
    [c EXCEPT !.tri = [s \in Syms |-> IF s \in T THEN KTri(s, sch, c.u) ELSE @[s]],
              !.vis = [s \in Syms |-> IF s \in T THEN KVisible(s, sch, c.u) ELSE @[s]],
              !.rev = [s \in Syms |-> IF s \in T THEN KRev(s, sch, c.u) ELSE @[s]]]

\* The C side right after the library has parsed the schema and calculated
\* every symbol.
InitialCS(sch) ==
    LET u0 == [s \in Syms |-> <<>>] IN
    [u |-> u0, us |-> [s \in Syms |-> <<>>],
     tri |-> [s \in Syms |-> KTri(s, sch, u0)],
     vis |-> [s \in Syms |-> KVisible(s, sch, u0)],
     rev |-> [s \in Syms |-> KRev(s, sch, u0)]]

\* The string the library holds for an int, hex or string symbol
\* (current_value.value).
StringOf(s, sch, c) == IF c.us[s] # <<>> THEN c.us[s][1] ELSE sch[s].sdflt

\* The number a symbol's string stands for: 0x-prefixed strings are hex.
ParseNumber(str) ==
    IF Len(str) >= 2 /\ SubSeq(str, 1, 2) = <<"0", "x">>
    THEN FromStrRadix(SubSeq(str, 3, Len(str)), 16)
    ELSE FromStrRadix(str, 10)

\* CSymbol::get_int_value: <<n>> or <<>> (error)
GetIntValue(s, sch, c) ==
    IF sch[s].type \notin IntTypes THEN <<>>
    ELSE ParseNumber(StringOf(s, sch, c))

\* is_tri_compatible!
IsTriCompatible(a, b, sch) ==
    sch[a].type \in TriTypes /\ sch[b].type \in TriTypes

\* is_int_compatible!: the macro inspects its first argument twice.
IsIntCompatible(a, b, sch) ==
    sch[a].type \in IntTypes /\ sch[a].type \in IntTypes

EvalOk(t) == [ok |-> TRUE, v |-> t, err |-> ""]
EvalErr(e) == [ok |-> FALSE, v |-> No, err |-> e]

\* min/max of two evaluated sides; the error of the left side comes first.
EvalBoth(k, a, b) ==
    IF ~a.ok THEN a
    ELSE IF ~b.ok THEN b
    ELSE EvalOk(IF k = "And" THEN TMin(a.v, b.v) ELSE TMax(a.v, b.v))

\* Expr::eval on the calculated values the symbols hold.
RECURSIVE Eval(_, _, _)
Eval(e, sch, c) ==
    CASE e.k = "Const" -> EvalOk(FromBool(e.b))
      [] e.k \in {"And", "Or"} ->
            EvalBoth(e.k, Eval(e.l, sch, c), Eval(e.r, sch, c))
      [] e.k = "Not" ->
            LET a == Eval(e.l, sch, c) IN
            IF ~a.ok THEN a ELSE EvalOk(Invert(a.v))
      [] e.k \in CompareKinds ->
            IF IsTriCompatible(e.a, e.b, sch)
            THEN EvalOk(FromBool(Compare(e.k, c.tri[e.a], c.tri[e.b])))
            ELSE IF IsIntCompatible(e.a, e.b, sch)
            THEN LET x == GetIntValue(e.a, sch, c)
                     y == GetIntValue(e.b, sch, c)
                 IN  IF x = <<>> \/ y = <<>> THEN EvalErr("InvalidIntegerSymbol")
                     ELSE EvalOk(FromBool(Compare(e.k, x[1], y[1])))
            ELSE EvalErr("InvalidTerminal")
      [] e.k = "Symbol" -> EvalOk(c.tri[e.a])

\* Symbol::visibility_expression
VisibilityExpression(s, sch) ==
    IF sch[s].vis = NoExpr THEN EConst(TRUE) ELSE sch[s].vis

\* The SymbolValue of an int, hex or string symbol, from its string.
ValueOfString(ty, str, n) ==
    CASE ty = "Int" ->
            IF n = <<>> THEN [arm |-> "Err", v |-> "InvalidInt"] ELSE VInt(n[1])
      [] ty = "Hex" ->
            IF n = <<>> THEN [arm |-> "Err", v |-> "InvalidHex"] ELSE VHex(n[1])
      [] ty = "String" -> VString(str)

\* Symbol::get_value: a SymbolValue, or an error kind
GetValue(s, sch, c) ==
    CASE sch[s].type = "Unknown" -> [arm |-> "Err", v |-> "UnknownType"]
      [] sch[s].type = "Boolean" -> VBoolean(c.tri[s] = Yes)
      [] sch[s].type = "Tristate" -> VTristate(c.tri[s])
      [] OTHER -> ValueOfString(sch[s].type, StringOf(s, sch, c),
                                IF sch[s].type = "Hex"
                                THEN FromStrRadix(SubSeq(StringOf(s, sch, c), 3,
                                                         Len(StringOf(s, sch, c))), 16)
                                ELSE FromStrRadix(StringOf(s, sch, c), 10))


(***************************************************************************)
(* Satisfier (bridge/satisfier.rs).  Assignments (a HashMap from symbol    *)
(* name to Tristate) are functions on a finite set of names.               *)
(***************************************************************************)
EmptyMap == [k \in {} |-> No]

SolveOk(m) == [ok |-> TRUE, m |-> m, kind |-> "Ok", conf |-> {}, sym |-> ""]
SolveErr(kind) ==
    [ok |-> FALSE, m |-> EmptyMap, kind |-> kind, conf |-> {}, sym |-> ""]
SolveErrAt(kind, s) == [SolveErr(kind) EXCEPT !.sym = s]

\* The keys on which two maps disagree, with both values.
Conflicts(a, b) ==
    {<<k, a[k], b[k]>> : k \in {x \in DOMAIN a \cap DOMAIN b : a[x] # b[x]}}

\* A merge that lets the left map win over a conflicting key (a faulty
\* variant).
MergeLeftWins(a, b) == SolveOk(a @@ b)

\* merge: the union, or ConflictingAssignment naming one conflicting key
\* (conf holds the candidates: the intersection is walked in hash order).
Merge(a, b) ==
    IF Conflicts(a, b) # {}
    THEN [SolveErr("ConflictingAssignment") EXCEPT !.conf = Conflicts(a, b)]
    ELSE SolveOk(a @@ b)

\* SimpleSolver::satisfy_eq
SatisfyEq(a, b, sch) ==
    IF ~sch[a].named THEN SolveErr("InvalidSymbol")
    ELSE IF b = Mod /\ sch[a].type # "Tristate"
    THEN SolveErrAt("RequiresModForBoolean", a)
    ELSE SolveOk(a :> b)

\* SimpleSolver::satisfy_neq
SatisfyNeq(a, b, desired, sch) ==
    LET value == IF b = No THEN desired ELSE IF b = Mod THEN Yes ELSE Mod IN
    IF ~sch[a].named THEN SolveErr("InvalidSymbol")
    ELSE IF value = Mod /\ sch[a].type # "Tristate"
    THEN SolveErrAt("RequiresModForBoolean", a)
    ELSE SolveOk(a :> value)

\* The comparison arms: the const side gives the value, the other side is
\* assigned; eq tells whether equality (or inequality) is wanted.
SatisfyCompare(a, b, eq, desired, sch, c) ==
    IF sch[a].const
    THEN IF eq THEN SatisfyEq(b, c.tri[a], sch)
         ELSE SatisfyNeq(b, c.tri[a], desired, sch)
    ELSE IF sch[b].const
    THEN IF eq THEN SatisfyEq(a, c.tri[b], sch)
         ELSE SatisfyNeq(a, c.tri[b], desired, sch)
    ELSE SolveErr("AmbiguousComparison")

\* The And arm: the left error first, then the right, then the merge.
SolveAnd(a, b) ==
    IF ~a.ok THEN a ELSE IF ~b.ok THEN b ELSE Merge(a.m, b.m)

\* The Or arm: the left solution if there is one, else the right.
SolveOr(a, b) == IF a.ok THEN a ELSE b

\* impl Solver for SimpleSolver
RECURSIVE SimpleSatisfy(_, _, _, _)

\* The arms of SimpleSolver::satisfy, once the expression is evaluated.
Solve(ev, e, desired, sch, c) ==
    IF ~ev.ok THEN SolveErr("UnsupportedConstituents")
    ELSE IF ev.v >= desired THEN SolveOk(EmptyMap)
    ELSE CASE e.k = "And" ->
                SolveAnd(SimpleSatisfy(e.l, desired, sch, c),
                         SimpleSatisfy(e.r, desired, sch, c))
           [] e.k = "Or" ->
                SolveOr(SimpleSatisfy(e.l, desired, sch, c),
                        SimpleSatisfy(e.r, desired, sch, c))
           [] e.k = "Const" ->
                IF e.b THEN SolveOk(EmptyMap) ELSE SolveErr("Unsatisfiable")
           [] e.k = "Not" ->
                CASE e.l.k \in {"Eq", "Neq"} ->
                        SatisfyCompare(e.l.a, e.l.b, e.l.k = "Neq", desired, sch, c)
                  [] e.l.k = "Symbol" -> SatisfyEq(e.l.a, No, sch)
                  [] e.l.k \in {"Lth", "Leq", "Gth", "Geq"} ->
                        SolveErr("UnsupportedConstituents")
                  [] OTHER -> SolveErr("ComplexNot")
           [] e.k \in {"Eq", "Neq"} ->
                SatisfyCompare(e.a, e.b, e.k = "Eq", desired, sch, c)
           [] e.k = "Symbol" ->
                SatisfyNeq(e.a, No, IF sch[e.a].type = "Boolean" THEN Yes ELSE desired, sch)
           [] OTHER -> SolveErr("UnsupportedConstituents")

SimpleSatisfy(e, desired, sch, c) ==
    Solve(Eval(e, sch, c), e, desired, sch, c)

\* All enumerations of a finite set (the iteration orders of a hash table).
RECURSIVE Perms(_)
Perms(S) ==
    IF S = {} THEN {<<>>}
    ELSE UNION {{<<x>> \o q : q \in Perms(S \ {x})} : x \in S}

\* A choice that settles for the first of several clauses (a faulty
\* variant).
PickFirstClause(clauses) ==
    IF Len(clauses) = 0 THEN [e |-> EConst(TRUE), amb |-> FALSE]
    ELSE [e |-> clauses[1], amb |-> FALSE]

\* The choice among the reverse-dependency clauses; amb tells whether an
\* Ambiguity is recorded.
PickClause(clauses) ==
    IF Len(clauses) = 0 THEN [e |-> EConst(TRUE), amb |-> FALSE]
    ELSE IF Len(clauses) = 1 THEN [e |-> clauses[1], amb |-> FALSE]
    ELSE [e |-> EConst(TRUE), amb |-> TRUE]

\* The reverse-dependency disjunct AND-ed into the constraint of a symbol
\* without prompt.
SelectClause(s, sch) ==
    IF sch[s].rev = NoExpr THEN [e |-> EConst(TRUE), amb |-> FALSE]
    ELSE PickClause(OrClauses(sch[s].rev))

\* The constraint satisfy() solves for one symbol.
Constraint(s, sch) ==
    IF sch[s].prompts = 0
    THEN EAnd(VisibilityExpression(s, sch), SelectClause(s, sch).e)
    ELSE VisibilityExpression(s, sch)

\* An outcome of satisfy(): Ok(list), Err(kind ...), a panic, or no return.
OutKind(kind) ==
    [kind |-> kind, list |-> <<>>, amb |-> <<>>, conf |-> {}, sym |-> ""]

\* An emission that keeps every target (a faulty variant).
RetainAll(m, sch) == m

\* The assignments kept for emission: targets the user can assign.
Retain(m, sch) ==
    [k \in {x \in DOMAIN m : sch[x].prompts > 0} |-> m[k]]

\* The emission of one topological layer: the fulfilled symbols in the
\* order fs, each draining its map in any order, skipping names already
\* emitted.
RECURSIVE EmitLayer(_, _, _)
EmitLayer(fs, solved, already) ==
    IF fs = <<>> THEN {<<>>}
    ELSE LET m == solved[Head(fs)]
             new == DOMAIN m \ already
         IN UNION {{[i \in 1..Len(p) |-> <<p[i], m[p[i]]>>] \o rest :
                        rest \in EmitLayer(Tail(fs), solved, already \cup new)} :
                    p \in Perms(new)}

\* An emission that takes every symbol at once, whatever its dependencies
\* (a faulty variant).
EmitUnordered(deps, solved, already) ==
    UNION {EmitLayer(fs, solved, already) : fs \in Perms(DOMAIN deps)}

\* The second loop of satisfy(): the possible emitted lists; {} stands for
\* the loop never ending (no symbol has its dependencies fulfilled).
RECURSIVE Emit(_, _, _)
Emit(deps, solved, already) ==
    IF DOMAIN deps = {} THEN {<<>>}
    ELSE LET fulfilled == {s \in DOMAIN deps : deps[s] = {}}
             remaining == [s \in DOMAIN deps \ fulfilled |-> deps[s] \ fulfilled]
             emitted == UNION {DOMAIN solved[s] : s \in fulfilled}
         IN IF fulfilled = {} THEN {}
            ELSE UNION {{layer \o rest :
                            rest \in Emit(remaining, solved, already \cup emitted)} :
                        layer \in UNION {EmitLayer(fs, solved, already) :
                                            fs \in Perms(fulfilled)}}

\* The result of satisfy() from the conflicts of the merge, the emitted
\* lists and the ambiguities.
Outcomes(conf, lists, amb) ==
    IF conf # {}
    THEN {[OutKind("ConflictingAssignment") EXCEPT !.conf = conf]}
    ELSE IF lists = {} THEN {OutKind("Diverges")}
    ELSE IF amb # <<>>
    THEN {[OutKind("AmbiguousSolution") EXCEPT !.amb = amb]}
    ELSE {[OutKind("Ok") EXCEPT !.list = l] : l \in lists}

\* What follows the work queue: conflict detection, emission, ambiguities.
Finish(st) ==
    Outcomes(UNION {Conflicts(st.solved[x], st.solved[y]) :
                       x \in DOMAIN st.solved, y \in DOMAIN st.solved},
             Emit(st.deps, st.solved, {}),
             st.amb)

\* The ambiguities after the constraint of s is built.
Ambiguities(s, st, sch) ==
    IF sch[s].prompts = 0 /\ SelectClause(s, sch).amb
    THEN Append(st.amb, [symbol |-> s, clauses |-> OrClauses(sch[s].rev)])
    ELSE st.amb

\* The symbols the solution depends on.
DependsOn(m) == {k \in DOMAIN m : m[k] # No}

RECURSIVE Visit(_, _, _, _, _)

\* One symbol of the work queue, once the solver has answered r.
Visited(s, r, amb, rest, st, cfg, sch, c) ==
    IF ~r.ok THEN {[OutKind(r.kind) EXCEPT !.conf = r.conf, !.sym = r.sym]}
    ELSE IF \E k \in DOMAIN r.m : k \notin NameToSymbol(sch)
    THEN {OutKind("Panic")}
    ELSE IF ~cfg.recursive
    THEN Finish([done |-> st.done \cup {s},
                 solved |-> (s :> Retain(r.m, sch)) @@ st.solved,
                 amb |-> amb,
                 deps |-> (s :> {}) @@ st.deps])
    ELSE UNION {Visit(rest \o q,
                      [done |-> st.done \cup {s},
                       solved |-> (s :> Retain(r.m, sch)) @@ st.solved,
                       amb |-> amb,
                       deps |-> (s :> DependsOn(r.m)) @@ st.deps],
                      cfg, sch, c) :
                q \in Perms(DependsOn(r.m))}

\* The work queue of satisfy(): every outcome the hash orders allow.
Visit(queue, st, cfg, sch, c) ==
    IF queue = <<>> THEN Finish(st)
    ELSE IF Head(queue) \in st.done THEN Visit(Tail(queue), st, cfg, sch, c)
    ELSE IF Head(queue) \notin NameToSymbol(sch) THEN {OutKind("InvalidSymbol")}
    ELSE Visited(Head(queue),
                 SimpleSatisfy(Constraint(Head(queue), sch), cfg.desired, sch, c),
                 Ambiguities(Head(queue), st, sch),
                 Tail(queue), st, cfg, sch, c)

SolverConfig(desired, recursive) == [desired |-> desired, recursive |-> recursive]

\* satisfier::satisfy: the set of its possible outcomes.
Satisfy(s, cfg, sch, c) ==
    Visit(<<s>>, [done |-> {}, solved |-> EmptyMap, amb |-> <<>>, deps |-> EmptyMap],
          cfg, sch, c)

\* Symbol::satisfy: an unnamed symbol is an InvalidSymbol.
SymbolSatisfy(s, cfg, sch, c) ==
    IF ~sch[s].named THEN {OutKind("InvalidSymbol")} ELSE Satisfy(s, cfg, sch, c)


(***************************************************************************)
(* Symbol::set_value (bridge/symbol.rs), the validator.                    *)
(***************************************************************************)
\* A SymbolSetError (or Ok): its kind and the fields the kinds carry.
Ret(kind) == [kind |-> kind, min |-> No, max |-> No, hint |-> {}]
RetRange(kind, min, max) == [Ret(kind) EXCEPT !.min = min, !.max = max]

\* The outcome of one set_value call: its result, the bridge setters it
\* invoked, the C side it leaves, and whether the sweep ran.
Outcome(ret, calls, c, swept) ==
    [ret |-> ret, calls |-> calls, c |-> c, swept |-> swept]
Fail(ret, c) == Outcome(ret, <<>>, c, FALSE)

\* One call of a bridge setter and the answer of the library.
SetterCall(fn, s, arg, ok) == [fn |-> fn, sym |-> s, arg |-> arg, ok |-> ok]

\* A validator without the prompt_count test (a faulty variant).
PreflightNoPrompt(s, sch) ==
    IF sch[s].const THEN "IsConst"
    ELSE IF sch[s].choice THEN "IsChoice"
    ELSE "Ok"

\* The three ensure! lines that open set_value.
Preflight(s, sch) ==
    IF sch[s].const THEN "IsConst"
    ELSE IF sch[s].choice THEN "IsChoice"
    ELSE IF ~(sch[s].prompts > 0) THEN "CannotSetManually"
    ELSE "Ok"

\* A validator that never looks at MODULES (a faulty variant).
ModulesNeverDisabled(modules) == FALSE

\* The test of the ModulesNotEnabled ensure!, on the value of MODULES.
ModulesDisabled(modules) == modules = No

\* A closure without the test against max (a faulty variant).
TristateGateNoMax(value, min, max, hasVis, modules) ==
    IF value < min THEN "RequiredByOther"
    ELSE IF value = Mod /\ ModulesDisabled(modules) THEN "ModulesNotEnabled"
    ELSE "Ok"

\* The checks of the set_tristate closure that precede the bridge call:
\* the error kind, or "Ok" when the value may be handed to the bridge.
TristateGate(value, min, max, hasVis, modules) ==
    IF value > max
    THEN IF hasVis THEN "UnmetDependencies" ELSE "MustBeSelected"
    ELSE IF value < min THEN "RequiredByOther"
    ELSE IF ~(max >= min) THEN "InvalidVisibility"
    ELSE IF value = Mod /\ ModulesDisabled(modules) THEN "ModulesNotEnabled"
    ELSE "Ok"

\* A closure that hands the value to the bridge before it reports the
\* error of the gate (a faulty variant).
GatedWriteFirst(gate, s, value, min, max, sch, c1) ==
    Outcome(IF gate = "Ok" THEN Ret("Ok") ELSE RetRange(gate, min, max),
            <<SetterCall("set_tristate", s, value, TRUE)>>,
            [c1 EXCEPT !.u[s] = <<value>>], FALSE)

\* The closure after its checks: the error of the gate, or the bridge call
\* on the C side c1 that visible() left.
Gated(gate, s, value, min, max, sch, c1) ==
    IF gate = "UnmetDependencies"
    THEN Fail([RetRange(gate, min, max) EXCEPT
                  !.hint = SymbolSatisfy(s, SolverConfig(value, TRUE), sch, c1)],
              c1)
    ELSE IF gate \in {"RequiredByOther", "InvalidVisibility"}
    THEN Fail(RetRange(gate, min, max), c1)
    ELSE IF gate # "Ok" THEN Fail(Ret(gate), c1)
    ELSE IF ~KSetTristateAccepts(s, value, sch, c1.u)
    THEN Outcome(Ret("AssignmentFailed"),
                 <<SetterCall("set_tristate", s, value, FALSE)>>, c1, FALSE)
    ELSE Outcome(Ret("Ok"), <<SetterCall("set_tristate", s, value, TRUE)>>,
                 [c1 EXCEPT !.u[s] = <<value>>], FALSE)

\* The closure once min is read and visible() has recalculated the symbol.
SetTristateOn(s, value, min, sch, c1) ==
    Gated(TristateGate(value, min, c1.vis[s], sch[s].vis # NoExpr,
                       c1.tri["MODULES"]),
          s, value, min, c1.vis[s], sch, c1)

\* The set_tristate closure of set_value.
SetTristate(s, value, sch, c) ==
    SetTristateOn(s, value, c.rev[s], sch, Recalculate(s, sch, c))

\* A range test that lets every value pass (a faulty variant).
InRangeAlways(value, min, max) == TRUE

\* The range test of the Int and Hex arms.
InRange(value, min, max) ==
    (min = 0 /\ max = 0) \/ (value >= min /\ value <= max)

\* sym_set_string_value: the library takes any string for a string symbol
\* and a number inside the declared range for an int or hex symbol.
\* The Int, Hex and String arms: range check, then c_sym_set_string_value.
SetString(s, str, n, sch, c) ==
    IF sch[s].type # "String" /\ ~InRange(n, sch[s].imin, sch[s].imax)
    THEN Fail(RetRange("OutOfRange", sch[s].imin, sch[s].imax), c)
    ELSE IF ~(sch[s].type = "String" \/ InRange(n, sch[s].imin, sch[s].imax))
    THEN Outcome(Ret("AssignmentFailed"), <<SetterCall("set_string", s, str, FALSE)>>,
                 c, FALSE)
    ELSE Outcome(Ret("Ok"), <<SetterCall("set_string", s, str, TRUE)>>,
                 [c EXCEPT !.us[s] = <<str>>], FALSE)

\* A sweep that also follows a failed match (a faulty variant).
SweptAlways(o, sch) ==
    Outcome(o.ret, o.calls, RecalculateAllSymbols(sch, o.c), TRUE)

\* The sweep that closes a successful set_value.
Swept(o, sch) ==
    IF o.ret.kind = "Ok"
    THEN Outcome(o.ret, o.calls, RecalculateAllSymbols(sch, o.c), TRUE)
    ELSE o

\* An arm that takes every value of an Unknown symbol (a faulty variant).
UnknownAnyArm(ty, arm) == ty = "Unknown"

\* The arm (SymbolType::Unknown, SymbolValue::Auto(_)).
UnknownArm(ty, arm) == ty = "Unknown" /\ arm = "Auto"

\* matches!(value.as_str(), "y" | "n")
AutoBoolean(str) == str \in {<<"y">>, <<"n">>}

\* An arm without its guard (a faulty variant).
BooleanTakesAny(value) == TRUE

\* The guard of the arm (SymbolType::Boolean, SymbolValue::Tristate(value)).
BooleanTakes(value) == value # Mod

\* The Auto arms: the typed value the string stands for, or the error.
AutoValue(ty, str) ==
    CASE ty = "Boolean" ->
            IF ~AutoBoolean(str) THEN Ret("InvalidBoolean")
            ELSE VBoolean(ParseTristate(str)[1] = Yes)
      [] ty = "Tristate" ->
            IF ParseTristate(str) = <<>> THEN Ret("InvalidTristate")
            ELSE VTristate(ParseTristate(str)[1])
      [] ty = "Int" ->
            IF FromStrRadix(str, 10) = <<>> THEN Ret("InvalidInt")
            ELSE VInt(FromStrRadix(str, 10)[1])
      [] ty = "Hex" ->
            \* &value[..2] panics on a string shorter than two bytes
            IF Len(str) < 2 THEN Ret("Panic")
            ELSE IF SubSeq(str, 1, 2) # <<"0", "x">> THEN Ret("InvalidHex")
            ELSE IF FromStrRadix(SubSeq(str, 3, Len(str)), 16) = <<>>
            THEN Ret("InvalidHex")
            ELSE VHex(FromStrRadix(SubSeq(str, 3, Len(str)), 16)[1])
      [] ty = "String" -> VString(str)

\* Whether a typed value reaches the set_tristate closure.
TristateArm(ty, value) ==
    \/ value.arm = "Boolean" /\ ty \in TriTypes
    \/ value.arm = "Tristate" /\ ty = "Boolean" /\ BooleanTakes(value.v)
    \/ value.arm = "Tristate" /\ ty = "Tristate"

\* A conversion that takes every Boolean for Yes (a faulty variant).
TristateOfTrue(value) == IF value.arm = "Boolean" THEN Yes ELSE value.v

\* The tristate a value of those arms hands to the closure.
TristateOf(value) == IF value.arm = "Boolean" THEN FromBool(value.v) ELSE value.v

RECURSIVE SetValue(_, _, _, _)

\* The match of set_value on (symbol type, value).
Dispatch(s, ty, value, sch, c) ==
    CASE UnknownArm(ty, value.arm) -> Fail(Ret("UnknownType"), c)
      [] value.arm = "Auto" /\ ty # "Unknown" ->
            IF "kind" \in DOMAIN AutoValue(ty, value.v)
            THEN Fail(AutoValue(ty, value.v), c)
            ELSE Swept(SetValue(s, AutoValue(ty, value.v), sch, c), sch)
      [] TristateArm(ty, value) ->
            Swept(SetTristate(s, TristateOf(value), sch, c), sch)
      [] value.arm = ty /\ ty \in {"Int", "Hex", "String"} ->
            Swept(SetString(s, CASE value.arm = "Int" -> FormatRadix(value.v, 10)
                                   [] value.arm = "Hex" ->
                                         <<"0", "x">> \o FormatRadix(value.v, 16)
                                   [] OTHER -> value.v,
                            IF ty = "String" THEN 0 ELSE value.v, sch, c), sch)
      [] value.arm = "Number" /\ ty = "Int" -> SetValue(s, VInt(value.v), sch, c)
      [] value.arm = "Number" /\ ty = "Hex" -> SetValue(s, VHex(value.v), sch, c)
      [] OTHER -> Fail(Ret("InvalidValue"), c)

\* Symbol::set_value
SetValue(s, value, sch, c) ==
    IF Preflight(s, sch) # "Ok" THEN Fail(Ret(Preflight(s, sch)), c)
    ELSE Dispatch(s, sch[s].type, value, sch, c)

(***************************************************************************)
(* Tracked calls (bridge/symbol.rs) and the journal check                  *)
(* (bridge/transaction.rs).                                                *)
(***************************************************************************)
Transaction(s, line, value, before, after, error) ==
    [symbol |-> s, line |-> line, value |-> value, value_before |-> before,
     value_after |-> after, error |-> error, wraps |-> ""]

\* What a tracked call leaves: the C side, the transactions pushed onto the
\* history, and its result ("Ok", the error, or "Panic").
TrackedResult(c, log, kind) == [c |-> c, log |-> log, kind |-> kind]

\* A tracked call that journals its successes alone (a faulty variant).
TrackedOkOnly(s, value, line, o, before, after) ==
    TrackedResult(o.c,
                  IF o.ret.kind = "Ok"
                  THEN <<Transaction(s, line, value, before, after, "Ok")>>
                  ELSE <<>>,
                  o.ret.kind)

\* The push of set_value_tracked, given the values read by get_value()
\* before and after the outcome o of set_value; unwrap() panics on an Err.
Tracked(s, value, line, o, before, after) ==
    IF before.arm = "Err" \/ o.ret.kind = "Panic" \/ after.arm = "Err"
    THEN TrackedResult(o.c, <<>>, "Panic")
    ELSE TrackedResult(o.c, <<Transaction(s, line, value, before, after,
                                          o.ret.kind)>>, o.ret.kind)

TrackedOutcome(s, value, line, o, sch, c) ==
    Tracked(s, value, line, o, GetValue(s, sch, c), GetValue(s, sch, o.c))

\* Symbol::set_value_tracked
SetValueTracked(s, value, line, sch, c) ==
    IF GetValue(s, sch, c).arm = "Err" THEN TrackedResult(c, <<>>, "Panic")
    ELSE TrackedOutcome(s, value, line, SetValue(s, value, sch, c), sch, c)

\* A satisfy_track_error that journals nothing (a faulty variant).
SatisfyUntracked(s, value, line, out, sch, c) ==
    TrackedResult(c, <<>>, "SatisfyFailed")

\* Symbol::satisfy_track_error for an outcome of satisfy that is an error:
\* the error is journaled as SatisfyFailed {error}, between two copies of
\* the value get_value() reads; unwrap() panics on an Err.
SatisfyTrackError(s, value, line, out, sch, c) ==
    IF GetValue(s, sch, c).arm = "Err" THEN TrackedResult(c, <<>>, "Panic")
    ELSE TrackedResult(c,
                       <<[Transaction(s, line, value, GetValue(s, sch, c),
                                      GetValue(s, sch, c), "SatisfyFailed")
                             EXCEPT !.wraps = out.kind]>>,
                       "SatisfyFailed")

\* A count that stops at the first error (a faulty variant).
CountFirstError(h) == IF \E i \in 1..Len(h) : h[i].error # "Ok" THEN 1 ELSE 0

\* The number of transactions that carry an error.
RECURSIVE CountErrors(_)
CountErrors(h) ==
    IF h = <<>> THEN 0
    ELSE (IF Head(h).error # "Ok" THEN 1 ELSE 0) + CountErrors(Tail(h))

\* Warnings for every repeated symbol, changed or not (a faulty variant).
ReassignmentsUnchanged(h) ==
    {<<i, j>> \in (1..Len(h)) \X (1..Len(h)) :
        /\ j < i
        /\ h[j].symbol = h[i].symbol
        /\ \A k \in (j + 1)..(i - 1) : h[k].symbol # h[i].symbol}

\* The reassignment warnings of validate_transactions, as pairs <<i, j>>:
\* transaction i changed the value of its symbol, and j is the first
\* transaction of that symbol the scan from i - 1 down to 1 meets.
Reassignments(h) ==
    {<<i, j>> \in (1..Len(h)) \X (1..Len(h)) :
        /\ j < i
        /\ h[j].symbol = h[i].symbol
        /\ h[i].value_before # h[i].value_after
        /\ \A k \in (j + 1)..(i - 1) : h[k].symbol # h[i].symbol}

\* A journal check that accepts every journal (a faulty variant).
ValidateNothing(h) == TRUE

\* validate_transactions: Ok exactly when no transaction carries an error.
ValidateTransactions(h) == CountErrors(h) = 0

(***************************************************************************)
(* The engine API: set_value and satisfy called on a loaded schema.        *)
(***************************************************************************)
vars == <<sid, user, ustr, tri, visible, revtri, history, last, pc, run>>

\* The values a caller passes, by the type of the target; for an Unknown
\* symbol one value of each arm of SymbolValue.
InputValues(ty) ==
    CASE ty \in TriTypes ->
            {VBoolean(TRUE), VBoolean(FALSE), VTristate(No), VTristate(Mod),
             VTristate(Yes), VAuto(<<"y">>), VAuto(<<"m">>), VAuto(<<"n">>),
             VAuto(<<"x">>), VNumber(1), VString(<<"y">>)}
      [] ty = "Unknown" ->
            {VAuto(<<"y">>), VBoolean(TRUE), VTristate(Yes), VInt(1), VHex(1),
             VNumber(1), VString(<<"y">>)}
      [] ty = "Int" ->
            {VAuto(<<"3">>), VAuto(<<"5">>), VAuto(<<"+", "1">>), VAuto(<<"x">>),
             VAuto(<<>>), VAuto(<<"0", "x", "3">>), VInt(0), VInt(1), VInt(4),
             VInt(5), VInt(U64Max), VNumber(3), VNumber(5), VHex(3),
             VBoolean(TRUE)}
      [] ty = "Hex" ->
            {VAuto(<<"0", "x", "3">>), VAuto(<<"0", "x", "f", "f">>),
             VAuto(<<"3">>), VAuto(<<>>), VAuto(<<"0", "x">>),
             VAuto(<<"0", "x", "g">>), VAuto(<<"1", "0">>), VHex(10),
             VHex(1), VNumber(3), VNumber(12), VInt(3)}
      [] ty = "String" ->
            {VAuto(<<"a">>), VString(<<>>), VString(<<"a", "b">>), VInt(1)}

\* The symbols the calls of the model target: every symbol of the schema
\* but the constants m and n (y stands for the three), MODULES where no
\* tristate symbol depends on it, and the symbols only the build reads.
Targets(sch) ==
    {s \in SymbolsOf(sch) :
        /\ s \notin {"KM", "KN", "BLK_DEV_INITRD"}
        /\ s = "MODULES" => sch = SchemaTristate
        /\ s = "A" => sch \notin {SchemaTypes, SchemaRanges}}

NoCall ==
    [op |-> "none", sym |-> "A", value |-> VBoolean(FALSE), ret |-> Ret("Ok"),
     calls |-> <<>>, swept |-> FALSE, min |-> No, max |-> No, modules |-> No,
     was |-> VBoolean(FALSE), wasUser |-> <<>>, out |-> OutKind("none"),
     cfg |-> SolverConfig(Yes, FALSE), logged |-> 0]

\* What a call on s reads before it acts: the cached floor, the fresh
\* visibility, the value of MODULES and the value of s.
Seen(s) ==
    [NoCall EXCEPT !.sym = s, !.min = revtri[s],
                   !.max = KVisible(s, Sch, user),
                   !.modules = tri["MODULES"],
                   !.was = IF Sch[s].type = "Unknown" THEN VBoolean(FALSE)
                           ELSE GetValue(s, Sch, CS),
                   !.wasUser = IF Sch[s].type \in TriTypes THEN user[s]
                               ELSE ustr[s]]

Install(c) ==
    /\ user' = c.u
    /\ ustr' = c.us
    /\ tri' = c.tri
    /\ visible' = c.vis
    /\ revtri' = c.rev

InitBridge ==
    /\ sid \in 1..Len(Schemas)
    /\ user = InitialCS(Sch).u
    /\ ustr = InitialCS(Sch).us
    /\ tri = InitialCS(Sch).tri
    /\ visible = InitialCS(Sch).vis
    /\ revtri = InitialCS(Sch).rev
    /\ history = <<>>
    /\ last = NoCall

NoRun == [cmd |-> "none", frontend |-> "none", len |-> 0, script |-> <<>>,
          initramfs |-> "none", events |-> <<>>, abort |-> "none",
          reported |-> 0, warned |-> {}]

Init ==
    /\ InitBridge
    /\ pc = "api"
    /\ run = NoRun

\* set_value returns o to its caller; a panic ends the process.
SetValueReturns(s, value, o) ==
    /\ pc' = IF o.ret.kind = "Panic" THEN "crashed" ELSE "returned"
    /\ Install(o.c)
    /\ last' = [Seen(s) EXCEPT !.op = "set_value", !.value = value,
                               !.ret = o.ret, !.calls = o.calls,
                               !.swept = o.swept]
    /\ UNCHANGED <<sid, history, run>>

\* A caller invokes Symbol::set_value on a symbol of the schema.
SetValueCall ==
    \E s \in Targets(Sch) : \E value \in InputValues(Sch[s].type) :
        /\ pc = "api"
        /\ SetValueReturns(s, value, SetValue(s, value, Sch, CS))

\* A caller invokes Symbol::satisfy; the call changes nothing on the C side.
\* A satisfy that never returns leaves the caller waiting.
SatisfyCall ==
    \E s \in Targets(Sch) : \E desired \in Tristates : \E recursive \in BOOLEAN :
        \E out \in SymbolSatisfy(s, SolverConfig(desired, recursive), Sch, CS) :
            /\ pc = "api"
            /\ pc' = CASE out.kind = "Panic" -> "crashed"
                       [] out.kind = "Diverges" -> "hung"
                       [] OTHER -> "returned"
            /\ last' = [Seen(s) EXCEPT !.op = "satisfy",
                                       !.value = VTristate(desired),
                                       !.cfg = SolverConfig(desired, recursive),
                                       !.out = out]
            /\ UNCHANGED <<sid, user, ustr, tri, visible, revtri, history, run>>

\* The caller drops the result and goes on to its next call.
Continue ==
    /\ pc = "returned"
    /\ pc' = "api"
    /\ last' = NoCall
    /\ UNCHANGED <<sid, user, ustr, tri, visible, revtri, history, run>>

Next == SetValueCall \/ SatisfyCall \/ Continue

Spec == Init /\ [][Next]_vars

(***************************************************************************)
(* The satisfier alone, as a function of the schema and of the calculated  *)
(* values: one satisfy call on a bridge that has just loaded its schema.   *)
(* On a schema with a cycle every symbol is at its default and no prompt   *)
(* of the cycle is visible.                                                *)
(***************************************************************************)
InitSat ==
    /\ sid \in 1..(Len(Schemas) + Len(CyclicSchemas))
    /\ user = [s \in Syms |-> <<>>]
    /\ ustr = [s \in Syms |-> <<>>]
    /\ tri = IF sid <= Len(Schemas) THEN InitialCS(Sch).tri
             ELSE [s \in Syms |-> Sch[s].dflt]
    /\ visible = IF sid <= Len(Schemas) THEN InitialCS(Sch).vis
                 ELSE [s \in Syms |-> IF Sch[s].vis = NoExpr /\ Sch[s].prompts > 0
                                      THEN Yes ELSE No]
    /\ revtri = IF sid <= Len(Schemas) THEN InitialCS(Sch).rev
                ELSE [s \in Syms |-> No]
    /\ history = <<>>
    /\ last = NoCall
    /\ pc = "api"
    /\ run = NoRun

\* One call of Symbol::satisfy and each of its outcomes; a call that never
\* returns leaves the caller waiting.
SatisfyAlone ==
    \E s \in SymbolsOf(Sch) \ {"KM", "KN"} : \E desired \in Tristates :
        \E recursive \in BOOLEAN :
            \E out \in SymbolSatisfy(s, SolverConfig(desired, recursive), Sch, CS) :
                /\ pc = "api"
                /\ pc' = CASE out.kind = "Panic" -> "crashed"
                           [] out.kind = "Diverges" -> "hung"
                           [] OTHER -> "returned"
                /\ last' = [NoCall EXCEPT !.op = "satisfy", !.sym = s,
                                          !.value = VTristate(desired),
                                          !.cfg = SolverConfig(desired, recursive),
                                          !.out = out]
                /\ UNCHANGED <<sid, user, ustr, tri, visible, revtri, history, run>>

SpecSat == InitSat /\ [][SatisfyAlone]_vars

(***************************************************************************)
(* The command line (bin/autokernel.rs) applying a script (script/).       *)
(* run.len is the number of statements of the script, run.script the       *)
(* statements executed so far, run.events the journal validations and      *)
(* write_config calls of the run, run.abort why the script stopped early.  *)
(***************************************************************************)
MaxScript == 2

\* The names a script uses; those missing from name_to_symbol stand for
\* symbols the kernel does not have.
ScriptNames(sch) ==
    (Targets(sch) \cap NameToSymbol(sch)) \cup {"BLK_DEV_INITRD", "C"}

\* The right-hand sides a script writes, by the type of the target.
StringsFor(name) ==
    CASE name \notin NameToSymbol(Sch) -> {<<"y">>}
      [] Sch[name].type \in TriTypes -> {<<"y">>, <<"n">>, <<"m">>}
      [] Sch[name].type = "Int" -> {<<"3">>, <<"5">>}
      [] Sch[name].type = "Hex" -> {<<"0", "x", "3">>, <<"3">>}
      [] OTHER -> {<<"a">>, <<>>}

\* A run of generate-config or build on a script of run.len statements; the
\* configuration file of a build says whether an initramfs is built, and
\* whether it is built into the kernel.
InitCli ==
    /\ InitBridge
    /\ pc = "script"
    /\ run \in {[NoRun EXCEPT !.cmd = m[1], !.initramfs = m[2],
                              !.frontend = f, !.len = n] :
                    m \in {<<"generate_config", "none">>, <<"build", "none">>,
                           <<"build", "external">>, <<"build", "builtin">>},
                    f \in {"kconfig", "lua"}, n \in 0..MaxScript}

AtStatement(frontend) ==
    /\ pc = "script"
    /\ run.frontend = frontend
    /\ Len(run.script) < run.len

\* The statement ends without touching the bridge: pc and run.abort say how.
Stops(stmt, to, why) ==
    /\ pc' = to
    /\ run' = [run EXCEPT !.script = Append(@, stmt), !.abort = why]
    /\ last' = NoCall
    /\ UNCHANGED <<sid, user, ustr, tri, visible, revtri, history>>

\* KConfig::apply after set_value_tracked returned r: the ? ends the script
\* at the first assignment that fails.
KConfigAssigned(r) ==
    /\ Install(r.c)
    /\ history' = history \o r.log
    /\ pc' = CASE r.kind = "Panic" -> "crashed"
               [] r.kind = "Ok" -> "script"
               [] OTHER -> "failed"
    /\ run' = [run EXCEPT !.script = Append(@, "set"),
                          !.abort = CASE r.kind = "Panic" -> "panic"
                                      [] r.kind = "Ok" -> "none"
                                      [] OTHER -> "assignment"]
    /\ last' = NoCall
    /\ UNCHANGED sid

\* One pass of the loop of KConfig::apply.
KConfigLine ==
    \E name \in ScriptNames(Sch) : \E value \in StringsFor(name) :
        /\ AtStatement("kconfig")
        /\ IF name \notin NameToSymbol(Sch)
           THEN Stops("set", "failed", "missing_symbol")
           ELSE KConfigAssigned(SetValueTracked(name, VAuto(value), Len(run.script) + 1, Sch, CS))

\* A Lua setter after set_value_tracked returned r: .ok() drops the error.
LuaAssigned(r) ==
    /\ Install(r.c)
    /\ history' = history \o r.log
    /\ pc' = IF r.kind = "Panic" THEN "crashed" ELSE "script"
    /\ run' = [run EXCEPT !.script = Append(@, "set"),
                          !.abort = IF r.kind = "Panic" THEN "panic" ELSE "none"]
    /\ last' = NoCall
    /\ UNCHANGED sid

\* bridge.symbol(&name).unwrap().set_value_tracked(value, ..).ok()
LuaCall(name, value) ==
    IF name \notin NameToSymbol(Sch) THEN Stops("set", "crashed", "missing_symbol")
    ELSE LuaAssigned(SetValueTracked(name, value, Len(run.script) + 1, Sch, CS))

\* ak.symbol_set_auto
LuaSetAuto ==
    \E name \in ScriptNames(Sch) : \E value \in StringsFor(name) :
        /\ AtStatement("lua")
        /\ LuaCall(name, VAuto(value))

\* ak.symbol_set_bool
LuaSetBool ==
    \E name \in ScriptNames(Sch) : \E value \in BOOLEAN :
        /\ AtStatement("lua")
        /\ LuaCall(name, VBoolean(value))

\* ak.symbol_set_number: a negative number is a Lua runtime error.
LuaSetNumber ==
    \E name \in ScriptNames(Sch) : \E value \in {-1, 3} :
        /\ AtStatement("lua")
        /\ IF value < 0 THEN Stops("set", "failed", "lua_error")
           ELSE LuaCall(name, VNumber(value))

\* ak.symbol_set_tristate: the symbol is looked up first, then the value is
\* parsed; a value that does not parse is a Lua runtime error.
LuaSetTristate ==
    \E name \in ScriptNames(Sch) : \E value \in {<<"y">>, <<"m">>, <<"x">>} :
        /\ AtStatement("lua")
        /\ IF name \notin NameToSymbol(Sch) THEN Stops("set", "crashed", "missing_symbol")
           ELSE IF ParseTristate(value) = <<>>
           THEN Stops("set", "failed", "lua_error")
           ELSE LuaCall(name, VTristate(ParseTristate(value)[1]))

\* A tracked call r made after the calls gathered in acc.
Then(acc, r) ==
    TrackedResult(r.c, acc.log \o r.log,
                  IF r.kind = "Panic" THEN "Panic" ELSE "Ok")

\* The loop of symbol_satisfy_and_set over the satisfying configuration.
RECURSIVE ApplyPlan(_, _, _, _)
ApplyPlan(list, line, sch, acc) ==
    IF list = <<>> \/ acc.kind = "Panic" THEN acc
    ELSE ApplyPlan(Tail(list), line, sch,
                   Then(acc, SetValueTracked(Head(list)[1], VTristate(Head(list)[2]),
                                             line, sch, acc.c)))

\* The closing assignment of symbol_satisfy_and_set, made when the symbol
\* has a prompt.
FinalSet(name, value, line, sch, acc) ==
    IF acc.kind = "Panic" \/ sch[name].prompts = 0 THEN acc
    ELSE Then(acc, SetValueTracked(name, VTristate(value), line, sch, acc.c))

\* symbol_satisfy_and_set returns after the tracked calls gathered in acc.
LuaSatisfied(name, value, cfg, out, acc) ==
    /\ Install(acc.c)
    /\ history' = history \o acc.log
    /\ pc' = IF acc.kind = "Panic" THEN "crashed" ELSE "script"
    /\ run' = [run EXCEPT !.script = Append(@, "satisfy"),
                          !.abort = IF acc.kind = "Panic" THEN "panic" ELSE "none"]
    /\ last' = [Seen(name) EXCEPT !.op = "satisfy_and_set",
                                  !.value = VTristate(value), !.cfg = cfg,
                                  !.out = out, !.logged = CountErrors(acc.log)]
    /\ UNCHANGED sid

\* symbol_satisfy_and_set for one outcome of the satisfier.
LuaSatisfyOutcome(name, value, cfg, out) ==
    CASE out.kind = "Panic" -> Stops("satisfy", "crashed", "panic")
      [] out.kind = "Diverges" -> Stops("satisfy", "hung", "none")
      [] out.kind = "Ok" ->
            LuaSatisfied(name, value, cfg, out,
                         FinalSet(name, value, Len(run.script) + 1, Sch,
                                  ApplyPlan(out.list, Len(run.script) + 1, Sch,
                                            TrackedResult(CS, <<>>, "Ok"))))
      [] OTHER ->
            LuaSatisfied(name, value, cfg, out,
                         SatisfyTrackError(name, VTristate(value), Len(run.script) + 1, out, Sch, CS))

\* ak.symbol_satisfy_and_set: the value is parsed first, then the symbol is
\* looked up.
LuaSatisfyAndSet ==
    \E name \in ScriptNames(Sch) : \E value \in {<<"y">>, <<"m">>, <<"x">>} :
        \E recursive \in BOOLEAN :
            /\ AtStatement("lua")
            /\ IF ParseTristate(value) = <<>>
               THEN Stops("satisfy", "failed", "lua_error")
               ELSE IF name \notin NameToSymbol(Sch)
               THEN Stops("satisfy", "crashed", "missing_symbol")
               ELSE \E out \in SymbolSatisfy(name,
                                   SolverConfig(ParseTristate(value)[1], recursive),
                                   Sch, CS) :
                        LuaSatisfyOutcome(name, ParseTristate(value)[1],
                                          SolverConfig(ParseTristate(value)[1], recursive),
                                          out)

\* The command goes on: its position and the events of the run change.
Proceeds(to, events) ==
    /\ pc' = to
    /\ run' = [run EXCEPT !.events = @ \o events]
    /\ UNCHANGED <<sid, user, ustr, tri, visible, revtri, history, last>>

\* script::apply returned Ok: validate_transactions(&bridge.history)?
Validate ==
    /\ pc = "script"
    /\ Len(run.script) = run.len
    /\ pc' = IF ValidateTransactions(history) THEN "validated" ELSE "failed"
    /\ run' = [run EXCEPT !.events = Append(@, IF ValidateTransactions(history)
                                                THEN "validate_ok"
                                                ELSE "validate_failed"),
                          !.reported = CountErrors(history),
                          !.warned = Reassignments(history)]
    /\ UNCHANGED <<sid, user, ustr, tri, visible, revtri, history, last>>

\* generate_config after the validation: bridge.write_config(output)?
WriteConfig ==
    \E written \in BOOLEAN :
        /\ pc = "validated"
        /\ run.cmd = "generate_config"
        /\ Proceeds(IF written THEN "done" ELSE "failed", <<"write_config">>)

\* The two ensure! of build_kernel on BLK_DEV_INITRD and INITRAMFS_SOURCE.
InitramfsReady ==
    /\ run.initramfs # "none" =>
           "BLK_DEV_INITRD" \in NameToSymbol(Sch) /\ tri["BLK_DEV_INITRD"] = Yes
    /\ run.initramfs = "builtin" =>
           /\ "INITRAMFS_SOURCE" \in NameToSymbol(Sch)
           /\ StringOf("INITRAMFS_SOURCE", Sch, CS) = <<>>

\* build_kernel after the validation, up to the end of its first make: the
\* initramfs checks, write_config, make and, for an initramfs that is not
\* built in, build_initramfs.
BuildStage1 ==
    \E made \in BOOLEAN :
        /\ pc = "validated"
        /\ run.cmd = "build"
        /\ IF ~InitramfsReady THEN Proceeds("failed", <<>>)
           ELSE IF ~made THEN Proceeds("failed", <<"write_config">>)
           ELSE Proceeds(IF run.initramfs = "builtin" THEN "stage2" ELSE "done",
                         <<"write_config">>)

\* build_kernel sets INITRAMFS_SOURCE, which returned o, writes the
\* configuration again and runs the second make.
BuildStage2Set(o, made) ==
    /\ Install(o.c)
    /\ pc' = IF o.ret.kind = "Ok" /\ made THEN "done" ELSE "failed"
    /\ run' = [run EXCEPT !.events =
                   IF o.ret.kind = "Ok" THEN Append(@, "write_config") ELSE @]
    /\ UNCHANGED <<sid, history, last>>

\* build_kernel with a built-in initramfs, after the first make:
\* build_initramfs, the untracked set_value, write_config and make.
BuildStage2 ==
    \E built \in BOOLEAN : \E made \in BOOLEAN :
        /\ pc = "stage2"
        /\ IF ~built THEN Proceeds("failed", <<>>)
           ELSE BuildStage2Set(SetValue("INITRAMFS_SOURCE", VString(<<"i">>),
                                        Sch, CS), made)

NextCli ==
    \/ KConfigLine
    \/ LuaSetAuto
    \/ LuaSetBool
    \/ LuaSetNumber
    \/ LuaSetTristate
    \/ LuaSatisfyAndSet
    \/ Validate
    \/ WriteConfig
    \/ BuildStage1
    \/ BuildStage2

SpecCli == InitCli /\ [][NextCli]_vars


(***************************************************************************)
(* Properties of the validator.                                            *)
(***************************************************************************)
LastSet == last.op = "set_value"
LastType == Sch[last.sym].type
Assignable(s) == ~Sch[s].const /\ ~Sch[s].choice /\ Sch[s].prompts > 0

\* The tristate the latest set_value handed to its set_tristate closure:
\* <<v>>, or <<>> when the call never reached the closure.
LastTristate ==
    IF ~LastSet \/ ~Assignable(last.sym) THEN <<>>
    ELSE CASE last.value.arm = "Boolean" /\ LastType \in TriTypes ->
                <<IF last.value.v THEN Yes ELSE No>>
           [] last.value.arm = "Tristate" /\ LastType = "Tristate" ->
                <<last.value.v>>
           [] last.value.arm = "Tristate" /\ LastType = "Boolean"
              /\ last.value.v # Mod -> <<last.value.v>>
           [] last.value.arm = "Auto" /\ LastType = "Boolean"
              /\ last.value.v \in {<<"y">>, <<"n">>} ->
                <<IF last.value.v = <<"y">> THEN Yes ELSE No>>
           [] last.value.arm = "Auto" /\ LastType = "Tristate"
              /\ last.value.v \in {<<"y">>, <<"m">>, <<"n">>} ->
                <<IF last.value.v = <<"y">> THEN Yes
                  ELSE IF last.value.v = <<"m">> THEN Mod ELSE No>>
           [] OTHER -> <<>>

\* The named, non-const boolean/tristate symbols of the schema.
TriSymbols ==
    {s \in SymbolsOf(Sch) :
        Sch[s].named /\ ~Sch[s].const /\ Sch[s].type \in TriTypes}

\* The calculated fields the engine reads are those the library would
\* calculate afresh from the user values.
CacheFresh ==
    \A s \in SweepTargets(Sch) :
        /\ tri[s] = KTri(s, Sch, user)
        /\ visible[s] = KVisible(s, Sch, user)
        /\ revtri[s] = KRev(s, Sch, user)

C5_NonAssignableRejectedFirst ==
    LastSet =>
        /\ Sch[last.sym].const =>
               last.ret.kind = "IsConst" /\ last.calls = <<>>
        /\ (~Sch[last.sym].const /\ Sch[last.sym].choice) =>
               last.ret.kind = "IsChoice" /\ last.calls = <<>>
        /\ (~Sch[last.sym].const /\ ~Sch[last.sym].choice
            /\ Sch[last.sym].prompts = 0) =>
               last.ret.kind = "CannotSetManually" /\ last.calls = <<>>

C5_Witness ==
    /\ LastSet
    /\ ~Sch[last.sym].const /\ ~Sch[last.sym].choice
    /\ Sch[last.sym].prompts = 0
    /\ last.value.arm = "Number"
    /\ last.ret.kind = "CannotSetManually"

C7_InvalidVisibility ==
    (LastTristate # <<>> /\ last.max < last.min) =>
        last.ret.kind = "InvalidVisibility"

C9_BooleanRejectsMod ==
    (LastSet /\ Assignable(last.sym) /\ LastType = "Boolean") =>
        /\ last.value = VTristate(Mod) =>
               /\ last.ret.kind = "InvalidValue"
               /\ last.calls = <<>>
               /\ GetValue(last.sym, Sch, CS) = last.was
               /\ user[last.sym] = last.wasUser
        /\ last.value = VAuto(<<"m">>) => last.ret.kind = "InvalidBoolean"

C9_Witness ==
    /\ LastSet /\ Assignable(last.sym) /\ LastType = "Boolean"
    /\ last.value = VTristate(Mod)
    /\ last.ret.kind = "InvalidValue"
    /\ last.was = VBoolean(TRUE)

C1_SatisfierSound ==
    (/\ last.op = "satisfy_and_set"
     /\ last.cfg.desired = Yes
     /\ last.out.kind = "Ok"
     /\ Sch[last.sym].type \in TriTypes
     /\ Sch[last.sym].prompts > 0) =>
        last.logged = 0

\* C1 as stated, for the recursive satisfier alone.
C1_RecursiveSatisfierSound ==
    (/\ last.op = "satisfy_and_set"
     /\ last.cfg.desired = Yes
     /\ last.cfg.recursive
     /\ last.out.kind = "Ok"
     /\ Sch[last.sym].type \in TriTypes
     /\ Sch[last.sym].prompts > 0) =>
        last.logged = 0

WriteConfigCalls == {i \in 1..Len(run.events) : run.events[i] = "write_config"}

\* C2: write_config is invoked only after validate_transactions succeeded on
\* the journal; when an assignment of the script failed or the script
\* aborted, no write_config call happens.
C2_WriteOnlyAfterValidation ==
    /\ \A i \in WriteConfigCalls :
           \E j \in 1..(i - 1) : run.events[j] = "validate_ok"
    /\ (CountErrors(history) > 0 \/ run.abort # "none") => WriteConfigCalls = {}

\* Both write_config calls of a build with a built-in initramfs, after a
\* script that assigned something.
C2_Witness ==
    /\ Cardinality(WriteConfigCalls) = 2
    /\ history # <<>>
    /\ pc = "done"

\* The lines of the script that left a transaction in the journal.
JournaledLines == {history[i].line : i \in 1..Len(history)}

\* C3 as stated: a failing tracked assignment never stops the script; with
\* either frontend, once the script is over (and was not ended by a missing
\* symbol, a Lua runtime error or a panic) the journal holds a transaction
\* for each of its assignments.
C3_TrackedNeverStops ==
    (/\ pc \notin {"script", "crashed", "hung"}
     /\ run.abort \in {"none", "assignment"}) =>
        /\ Len(run.script) = run.len
        /\ \A l \in 1..Len(run.script) :
               run.script[l] = "set" => l \in JournaledLines

(***************************************************************************)
(* Properties of the typed arms of the validator.                          *)
(***************************************************************************)
\* A string that is "0x" followed by hex digits that fit a u64.
HexLiteral(str) ==
    /\ Len(str) >= 2
    /\ SubSeq(str, 1, 2) = <<"0", "x">>
    /\ FromStrRadix(SubSeq(str, 3, Len(str)), 16) # <<>>

LastAuto == LastSet /\ Assignable(last.sym) /\ last.value.arm = "Auto"

\* C11 as stated: set_value(Auto(s)) on an assignable Hex symbol proceeds as
\* Hex(n) when s is "0x" followed by hex digits that fit a u64 and returns
\* InvalidHex for every other string, the empty and the one-character
\* strings included; it fails in no other way.
C11_HexAutoTotal ==
    (LastAuto /\ LastType = "Hex") =>
        IF HexLiteral(last.value.v)
        THEN last.ret.kind \in {"Ok", "OutOfRange", "AssignmentFailed"}
        ELSE last.ret.kind = "InvalidHex"

\* C11 for the strings of two bytes or more, where the slice is defined.
C11_HexAutoLong ==
    (LastAuto /\ LastType = "Hex" /\ Len(last.value.v) >= 2) =>
        IF HexLiteral(last.value.v)
        THEN last.ret.kind \in {"Ok", "OutOfRange", "AssignmentFailed"}
        ELSE last.ret.kind = "InvalidHex"

\* The latest call is a set_value of a number on an assignable Int or Hex
\* symbol, by the arm of its type or by the Number arm.
LastNumber ==
    /\ LastSet
    /\ Assignable(last.sym)
    /\ LastType \in {"Int", "Hex"}
    /\ last.value.arm \in {LastType, "Number"}

LastOutside ==
    /\ <<Sch[last.sym].imin, Sch[last.sym].imax>> # <<0, 0>>
    /\ \/ last.value.v < Sch[last.sym].imin
       \/ last.value.v > Sch[last.sym].imax

\* C12: for an assignable Int or Hex symbol with bounds (min, max),
\* set_value(Int/Hex/Number v) returns OutOfRange{min, max} without calling
\* the bridge setter iff (min, max) # (0, 0) and v lies outside min..max;
\* every other value, and so every value under the bounds (0, 0), is
\* formatted and passed to the bridge setter.
C12_RangeEnforced ==
    LastNumber =>
        IF LastOutside
        THEN /\ last.ret = RetRange("OutOfRange", Sch[last.sym].imin,
                                    Sch[last.sym].imax)
             /\ last.calls = <<>>
        ELSE /\ last.ret.kind # "OutOfRange"
             /\ Len(last.calls) = 1
             /\ last.calls[1].fn = "set_string"
             /\ last.calls[1].sym = last.sym
             /\ last.calls[1].arg =
                    IF LastType = "Int" THEN FormatRadix(last.value.v, 10)
                    ELSE <<"0", "x">> \o FormatRadix(last.value.v, 16)

\* A Number above the declared range of the hex symbol is refused.
C12_Witness ==
    /\ LastNumber
    /\ LastOutside
    /\ LastType = "Hex"
    /\ last.value.arm = "Number"
    /\ last.ret.kind = "OutOfRange"

\* The int symbol without a declared range takes the largest u64.
C12_WitnessNoRange ==
    /\ LastNumber
    /\ LastType = "Int"
    /\ <<Sch[last.sym].imin, Sch[last.sym].imax>> = <<0, 0>>
    /\ last.value.v = U64Max
    /\ last.ret.kind = "Ok"

(***************************************************************************)
(* Properties of a successful write and of the journal.                    *)
(***************************************************************************)
\* C13: whenever set_value with a Boolean or Tristate value v returns Ok on
\* a boolean/tristate symbol, get_tristate_value on that symbol, called
\* next, returns v (Boolean(b) standing for Yes or No).
C13_ReadBackTristate ==
    (/\ LastSet
     /\ LastType \in TriTypes
     /\ last.value.arm \in {"Boolean", "Tristate"}
     /\ last.ret.kind = "Ok") =>
        /\ LastTristate # <<>>
        /\ tri[last.sym] = LastTristate[1]

\* A tristate symbol written to Mod and changed by the write.
C13_Witness ==
    /\ LastSet
    /\ last.value = VTristate(Mod)
    /\ last.ret.kind = "Ok"
    /\ last.was # VTristate(Mod)
    /\ tri[last.sym] = Mod

\* C13 for set_value_tracked: the transaction a tracked Boolean or Tristate
\* write has just pushed, when it carries no error, names a symbol whose
\* value is the written one.
C13_ReadBackTracked ==
    (/\ history # <<>>
     /\ pc \in {"script", "validated"}
     /\ history[Len(history)].value.arm \in {"Boolean", "Tristate"}
     /\ history[Len(history)].error = "Ok") =>
        tri[history[Len(history)].symbol] =
            TristateOf(history[Len(history)].value)

\* The step is one call of set_value_tracked on a symbol the bridge knows,
\* made by a line of a .config script or by a Lua setter.
TrackedSetStep ==
    /\ run'.script = Append(run.script, "set")
    /\ run'.abort \notin {"missing_symbol", "lua_error"}

Failed == {i \in 1..Len(history) : history[i].error # "Ok"}

\* validate_transactions has run on the journal, and how it ended.
ValidatedOk == \E i \in 1..Len(run.events) : run.events[i] = "validate_ok"
ValidatedErr == \E i \in 1..Len(run.events) : run.events[i] = "validate_failed"

\* C15: validate_transactions fails iff at least one transaction of the
\* journal carries an error, and the N of its message is the number of
\* transactions with an error; with none it returns Ok, however many
\* reassignment warnings it emitted.
C15_FailsIffErrors ==
    /\ ValidatedErr => (Failed # {} /\ run.reported = Cardinality(Failed))
    /\ ValidatedOk => (Failed = {} /\ run.reported = 0)

\* A validation that reported two errors.
C15_Witness ==
    /\ ValidatedErr
    /\ run.reported = 2
    /\ Cardinality(Failed) = 2

\* A validation that returned Ok after it emitted a warning.
C15_WitnessWarned ==
    /\ ValidatedOk
    /\ run.warned # {}

\* The earlier transactions of the symbol of transaction i.
Earlier(i) == {j \in 1..(i - 1) : history[j].symbol = history[i].symbol}

Changed(i) == history[i].value_before # history[i].value_after

Validated == ValidatedOk \/ ValidatedErr

\* C16: validation emits a warning for transaction t iff t is successful,
\* some earlier transaction names the same symbol, and t changed the value;
\* a transaction gets at most one warning, and it points at the most recent
\* earlier transaction of its symbol.
C16_ReassignmentWarnings ==
    Validated =>
        /\ \A i \in 1..Len(history) :
               (\E w \in run.warned : w[1] = i) <=>
                   (history[i].error = "Ok" /\ Earlier(i) # {} /\ Changed(i))
        /\ \A w \in run.warned :
               /\ w[2] \in Earlier(w[1])
               /\ \A j \in Earlier(w[1]) : j <= w[2]
        /\ \A v, w \in run.warned : v[1] = w[1] => v = w

\* S = Yes, then S = No: both succeed, one warning that points from the
\* second transaction at the first, and no error.
C16_Witness ==
    /\ ValidatedOk
    /\ Len(history) = 2
    /\ history[1].symbol = history[2].symbol
    /\ history[1].value = VBoolean(TRUE)
    /\ history[2].value = VBoolean(FALSE)
    /\ Failed = {}
    /\ run.warned = {<<2, 1>>}

\* Transactions i - 1 and i are the same fully valid assignment, applied
\* twice in a row.
Repeated(i) ==
    /\ i > 1
    /\ history[i].symbol = history[i - 1].symbol
    /\ history[i].value = history[i - 1].value
    /\ history[i].error = "Ok"
    /\ history[i - 1].error = "Ok"

\* C17 as stated: the same fully valid tracked assignment applied twice in
\* a row makes journal validation emit exactly one reassignment warning.
C17_RepeatWarnsOnce ==
    (Validated /\ Len(history) = 2 /\ Repeated(2)) =>
        Cardinality(run.warned) = 1

\* C17, amended: the second application of the same fully valid tracked
\* assignment changes nothing on the C side, so its transaction has
\* value_before = value_after, and journal validation emits no reassignment
\* warning for it.
C17_RepeatIsSilent ==
    /\ [][(TrackedSetStep /\ Len(history') = Len(history) + 1
           /\ Len(history') > 1 /\ Repeated(Len(history))')
              => UNCHANGED <<user, ustr, tri, visible, revtri>>]_vars
    /\ [](Validated =>
            \A i \in 1..Len(history) :
                Repeated(i) => /\ ~Changed(i)
                               /\ \A w \in run.warned : w[1] # i)

\* The same assignment twice, validated without a warning.
C17_Witness ==
    /\ ValidatedOk
    /\ Len(history) = 2
    /\ Repeated(2)
    /\ history[1].value_before # history[1].value_after
    /\ run.warned = {}

(***************************************************************************)
(* Properties of the satisfier.                                            *)
(***************************************************************************)
LastSatisfy == last.op = "satisfy"

C18_AcyclicSatisfyReturns ==
    (LastSatisfy /\ sid <= Len(Schemas)) => pc = "returned"

\* The assignments the solver derives for the constraint of n itself, as
\* far as they are emitted (targets with a prompt).
OwnAssignments(n) ==
    Retain(SimpleSatisfy(Constraint(n, Sch), last.cfg.desired, Sch, CS).m, Sch)

\* C19: in every Ok result of recursive satisfy, for each emitted pair
\* (n, v) with v # No, every assignment the solver derived for the
\* constraint of n (and did not strip as not user-assignable) stands
\* earlier in the list than (n, v): no element depends on a later one.
C19_TopologicalEmission ==
    (LastSatisfy /\ last.cfg.recursive /\ last.out.kind = "Ok") =>
        \A i \in 1..Len(last.out.list) :
            last.out.list[i][2] # No =>
                \A k \in DOMAIN OwnAssignments(last.out.list[i][1]) :
                    \E j \in 1..(i - 1) :
                        last.out.list[j] =
                            <<k, OwnAssignments(last.out.list[i][1])[k]>>

\* A list where an emitted symbol has a requirement of its own.
C19_Witness ==
    /\ LastSatisfy
    /\ last.cfg.recursive
    /\ last.out.kind = "Ok"
    /\ \E i \in 1..Len(last.out.list) :
           /\ last.out.list[i][2] # No
           /\ DOMAIN OwnAssignments(last.out.list[i][1]) # {}

\* C20 as stated: two satisfy calls on the same schema state with the same
\* SolverConfig return the identical ordered list: whatever list the latest
\* call returned, every list the same call can return on the same state is
\* that list.
C20_SameListEveryCall ==
    (LastSatisfy /\ last.out.kind = "Ok") =>
        \A o \in SymbolSatisfy(last.sym, last.cfg, Sch, CS) :
            o.kind = "Ok" => o.list = last.out.list

\* What does hold for two such calls: the lists carry the same assignments,
\* in possibly different orders.
C20_SameAssignmentsEveryCall ==
    (LastSatisfy /\ last.out.kind = "Ok") =>
        \A o \in SymbolSatisfy(last.sym, last.cfg, Sch, CS) :
            /\ o.kind = "Ok"
            /\ Len(o.list) = Len(last.out.list)
            /\ {o.list[i] : i \in 1..Len(o.list)} =
                   {last.out.list[i] : i \in 1..Len(last.out.list)}

\* The top-level OR-clauses of the reverse dependencies of x.
RevClauses(x) == IF Sch[x].rev = NoExpr THEN <<>> ELSE OrClauses(Sch[x].rev)

\* The pairs of an emitted list, and those of an assignment map.
ListPairs(list) == {list[i] : i \in 1..Len(list)}
MapPairs(m) == {<<k, m[k]>> : k \in DOMAIN m}

\* C21: for a visited symbol X with prompt_count = 0, one reverse-dependency
\* OR-clause is AND-ed into the constraint of X and satisfy can return Ok;
\* with two or more clauses satisfy never returns Ok and, when it returns
\* AmbiguousSolution, an entry names X with every clause.  Every entry of
\* an AmbiguousSolution names a promptless symbol with two or more clauses.
C21_SelectAmbiguity ==
    (LastSatisfy /\ pc = "returned") =>
        /\ \A i \in 1..Len(last.out.amb) :
               /\ Sch[last.out.amb[i].symbol].prompts = 0
               /\ Len(RevClauses(last.out.amb[i].symbol)) >= 2
               /\ last.out.amb[i].clauses = RevClauses(last.out.amb[i].symbol)
        /\ (Sch[last.sym].prompts = 0 /\ Len(RevClauses(last.sym)) >= 2) =>
               /\ last.out.kind # "Ok"
               /\ last.out.kind = "AmbiguousSolution" =>
                      \E i \in 1..Len(last.out.amb) :
                          last.out.amb[i].symbol = last.sym
        /\ (Sch[last.sym].prompts = 0 /\ Len(RevClauses(last.sym)) = 1) =>
               /\ \A i \in 1..Len(last.out.amb) :
                      last.out.amb[i].symbol # last.sym
               /\ (last.out.kind = "Ok" /\ ~last.cfg.recursive) =>
                      ListPairs(last.out.list) =
                          MapPairs(Retain(
                              SimpleSatisfy(EAnd(VisibilityExpression(last.sym, Sch),
                                                 RevClauses(last.sym)[1]),
                                            last.cfg.desired, Sch, CS).m, Sch))

\* An AmbiguousSolution that names a symbol visited as a dependency of the
\* seed, with its two clauses.
C21_Witness ==
    /\ LastSatisfy
    /\ last.out.kind = "AmbiguousSolution"
    /\ Len(last.out.amb) = 1
    /\ last.out.amb[1].symbol # last.sym
    /\ Len(last.out.amb[1].clauses) = 2

\* A promptless symbol with one clause, solved through that clause.
C21_WitnessSolvable ==
    /\ LastSatisfy
    /\ Sch[last.sym].prompts = 0
    /\ Len(RevClauses(last.sym)) = 1
    /\ last.out.kind = "Ok"
    /\ last.out.list # <<>>

\* ---------------------------------------------------------------------
\* The functions of the engine called on their own, in every state the
\* API machine reaches.

\* Expr::eval of a comparison terminal over two named symbols.
EvalCall ==
    /\ pc = "api"
    /\ \E k \in CompareKinds : \E a, b \in {s \in SymbolsOf(Sch) : Sch[s].named} :
        /\ pc' = "returned"
        /\ last' = [NoCall EXCEPT !.op = "eval", !.sym = a,
                                  !.value = [k |-> k, a |-> a, b |-> b],
                                  !.out = Eval([k |-> k, a |-> a, b |-> b], Sch, CS)]
        /\ UNCHANGED <<sid, user, ustr, tri, visible, revtri, history, run>>

\* SimpleSolver::satisfy on an expression over the boolean/tristate symbols
\* A and B: a terminal, a negated terminal, or an And or Or of two of them.
SolveCall ==
    LET Leaves == {ESym("A"), ESym("B"), ENot(ESym("A")), ENot(ESym("B")),
                   ENeq("A", "KY"), [k |-> "Eq", a |-> "B", b |-> "KM"],
                   ENot([k |-> "Eq", a |-> "A", b |-> "KM"]), EConst(FALSE)}
        Exprs == Leaves \cup {EAnd(l, r) : l \in Leaves, r \in Leaves}
                        \cup {EOr(l, r) : l \in Leaves, r \in Leaves}
    IN  /\ pc = "api"
        /\ \E e \in Exprs : \E desired \in {Mod, Yes} :
            /\ pc' = "returned"
            /\ last' = [NoCall EXCEPT !.op = "solve", !.value = e,
                                      !.cfg = SolverConfig(desired, FALSE),
                                      !.out = SimpleSatisfy(e, desired, Sch, CS)]
            /\ UNCHANGED <<sid, user, ustr, tri, visible, revtri, history, run>>

NextFn == SetValueCall \/ Continue \/ EvalCall \/ SolveCall

SpecFn == Init /\ [][NextFn]_vars

\* The terminal the last call evaluated and the types of its two symbols.
LastEval == last.op = "eval"
LeftType == Sch[last.value.a].type
RightType == Sch[last.value.b].type

\* Whether the string value of an int-compatible symbol parses as a u64.
Parses(s) == ParseNumber(StringOf(s, Sch, CS)) # <<>>

\* C23: a comparison terminal compares tristates when both symbols are
\* boolean/tristate, u64 values when both are int/hex/unknown, and fails
\* with InvalidTerminal for every other pair of types; InvalidIntegerSymbol
\* is returned only for an int-compatible symbol whose string value does
\* not parse.
C23_ComparisonTerminals ==
    LastEval =>
        CASE LeftType \in TriTypes /\ RightType \in TriTypes ->
                 last.out = EvalOk(FromBool(Compare(last.value.k, tri[last.value.a],
                                                    tri[last.value.b])))
          [] LeftType \in IntTypes /\ RightType \in IntTypes ->
                 IF Parses(last.value.a) /\ Parses(last.value.b)
                 THEN /\ last.out.ok
                      /\ last.out.v = FromBool(Compare(last.value.k,
                             ParseNumber(StringOf(last.value.a, Sch, CS))[1],
                             ParseNumber(StringOf(last.value.b, Sch, CS))[1]))
                 ELSE last.out = EvalErr("InvalidIntegerSymbol")
          [] OTHER -> last.out = EvalErr("InvalidTerminal")

\* What the code does for the pairs of one kind, and for a pair whose left
\* symbol is boolean/tristate or a string: as C23 states.
C23_SameKindOrLeftNotInt ==
    (LastEval /\ ~(LeftType \in IntTypes /\ RightType \notin IntTypes)) =>
        C23_ComparisonTerminals

\* An int-compatible left symbol against any other right symbol: the
\* right side is read as an integer and the error names it.
C23_IntAgainstOther ==
    (LastEval /\ LeftType \in IntTypes /\ RightType \notin IntTypes) =>
        last.out = EvalErr("InvalidIntegerSymbol")

\* A boolean on the left of an int symbol: InvalidTerminal.
C23_WitnessInvalidTerminal ==
    /\ LastEval
    /\ LeftType = "Boolean" /\ RightType = "Int"
    /\ last.out = EvalErr("InvalidTerminal")

\* ---------------------------------------------------------------------
\* The functions that read no symbol, called on their own.

\* A null pointer to a raw C expression, and the raw trees of at most
\* depth levels: a node holds its type and two children, which are
\* expressions under Or, And and Not and symbols under the other types.
RawNull == [t |-> "Null"]

MaxDepth == 2

RECURSIVE RawTrees(_)
RawTrees(depth) ==
    IF depth = 0 THEN {RawNull}
    ELSE LET below == RawTrees(depth - 1) IN
         below
         \cup {[t |-> ty, l |-> l, r |-> r] : ty \in {"Or", "And"}, l \in below, r \in below}
         \cup {[t |-> "Not", l |-> l, r |-> RawNull] : l \in below}
         \cup {[t |-> ty, l |-> "A", r |-> "B"] :
                   ty \in {"Equal", "Unequal", "Lth", "Leq", "Gth", "Geq"}}
         \cup {[t |-> ty, l |-> "A", r |-> "A"] : ty \in {"Symbol", "None", "List", "Range"}}

\* The result of a conversion: Ok(Some(e)), Ok(None), Err(err) or a panic.
Converted(kind, e, err) == [kind |-> kind, e |-> e, err |-> err]

\* convert_expression: expr! converts a child and unwraps it, sym! takes
\* the child as a symbol; both test the node itself for null, never the
\* child.
RECURSIVE ConvertExpression(_)
ConvertExpression(x) ==
    CASE x = RawNull -> Converted("None", NoExpr, "")
      [] x.t \in {"None", "List", "Range"} -> Converted("Err", NoExpr, x.t)
      [] x.t \in {"Or", "And"} ->
            LET l == ConvertExpression(x.l)
                r == ConvertExpression(x.r)
            IN  CASE l.kind = "None" -> Converted("Panic", NoExpr, "")
                  [] l.kind # "Some" -> l
                  [] r.kind = "None" -> Converted("Panic", NoExpr, "")
                  [] r.kind # "Some" -> r
                  [] OTHER -> Converted("Some", [k |-> x.t, l |-> l.e, r |-> r.e], "")
      [] x.t = "Not" ->
            LET l == ConvertExpression(x.l) IN
            CASE l.kind = "None" -> Converted("Panic", NoExpr, "")
              [] l.kind # "Some" -> l
              [] OTHER -> Converted("Some", ENot(l.e), "")
      [] x.t = "Symbol" -> Converted("Some", ESym(x.l), "")
      [] OTHER ->
            Converted("Some",
                      [k |-> CASE x.t = "Equal" -> "Eq"
                               [] x.t = "Unequal" -> "Neq"
                               [] OTHER -> x.t,
                       a |-> x.l, b |-> x.r], "")

\* merge(a, b) and merge(b, a) on copies of the same two maps over two
\* symbols.  A failed merge returns at the first conflicting key of its
\* walk over the intersection, for which no order is defined.
MergeCall ==
    LET Maps == UNION {[d -> Tristates] : d \in SUBSET {"A", "B"}}
        Returned(r) == IF r.conf = {} THEN {r}
                       ELSE {[r EXCEPT !.conf = {c}] : c \in r.conf}
    IN  /\ pc = "api"
        /\ \E a, b \in Maps :
            \E ab \in Returned(Merge(a, b)) : \E ba \in Returned(Merge(b, a)) :
                /\ pc' = "returned"
                /\ last' = [NoCall EXCEPT !.op = "merge", !.value = <<a, b>>,
                                          !.out = ab, !.ret = ba]
                /\ UNCHANGED <<sid, user, ustr, tri, visible, revtri, history, run>>

\* convert_expression on a raw tree of the C side.
ConvertCall ==
    /\ pc = "api"
    /\ \E x \in RawTrees(MaxDepth) :
        /\ pc' = IF ConvertExpression(x).kind = "Panic" THEN "crashed" ELSE "returned"
        /\ last' = [NoCall EXCEPT !.op = "convert", !.value = x,
                                  !.out = ConvertExpression(x)]
        /\ UNCHANGED <<sid, user, ustr, tri, visible, revtri, history, run>>

InitPure == Init /\ sid = 1

NextPure == MergeCall \/ ConvertCall

SpecPure == InitPure /\ [][NextPure]_vars

LastMerge == last.op = "merge"

\* The keys the two maps of the last merge disagree on.
Disagree ==
    {k \in DOMAIN last.value[1] \cap DOMAIN last.value[2] :
        last.value[1][k] # last.value[2][k]}

\* The fields of the ConflictingAssignment a merge returned.
ErrorOf(r) == CHOOSE c \in r.conf : TRUE

\* C22 as stated: without a conflicting key both orders produce the union;
\* with one, both orders fail with the identical ConflictingAssignment
\* (same symbol, same a and b fields).
C22_MergeCommutative ==
    LastMerge =>
        IF Disagree = {}
        THEN last.out.ok /\ last.ret = last.out
        ELSE /\ last.out.kind = "ConflictingAssignment"
             /\ last.ret = last.out

\* C22, amended: without a conflicting key both orders produce the same
\* map, the union; with one, both orders fail with ConflictingAssignment on
\* a conflicting key, each reporting the value of its own first map as a
\* and that of its second as b, so that for one key the fields of the two
\* errors are exchanged.
C22_MergeCommutesUpToFields ==
    LastMerge =>
        IF Disagree = {}
        THEN /\ last.out.ok /\ last.ret = last.out
             /\ DOMAIN last.out.m = DOMAIN last.value[1] \cup DOMAIN last.value[2]
             /\ \A k \in DOMAIN last.value[1] : last.out.m[k] = last.value[1][k]
             /\ \A k \in DOMAIN last.value[2] : last.out.m[k] = last.value[2][k]
        ELSE /\ ~last.out.ok /\ last.out.kind = "ConflictingAssignment"
             /\ ~last.ret.ok /\ last.ret.kind = "ConflictingAssignment"
             /\ ErrorOf(last.out)[1] \in Disagree
             /\ ErrorOf(last.ret)[1] \in Disagree
             /\ ErrorOf(last.out)[2] = last.value[1][ErrorOf(last.out)[1]]
             /\ ErrorOf(last.out)[3] = last.value[2][ErrorOf(last.out)[1]]
             /\ ErrorOf(last.ret)[2] = last.value[2][ErrorOf(last.ret)[1]]
             /\ ErrorOf(last.ret)[3] = last.value[1][ErrorOf(last.ret)[1]]
             /\ last.ret # last.out

\* Two maps that conflict on one key, merged in both orders.
C22_Witness ==
    /\ LastMerge
    /\ Cardinality(Disagree) = 1
    /\ ErrorOf(last.out)[1] = ErrorOf(last.ret)[1]
    /\ ErrorOf(last.out)[2] = ErrorOf(last.ret)[3]

\* Two overlapping maps without a conflict, merged to their union.
C22_WitnessUnion ==
    /\ LastMerge
    /\ last.out.ok
    /\ DOMAIN last.value[1] = {"A"} /\ DOMAIN last.value[2] = {"A", "B"}
    /\ DOMAIN last.out.m = {"A", "B"}

\* Two conflicting keys: the two orders can name different symbols.
C22_WitnessTwoKeys ==
    /\ LastMerge
    /\ Cardinality(Disagree) = 2
    /\ ErrorOf(last.out)[1] # ErrorOf(last.ret)[1]

LastConvert == last.op = "convert"

\* Whether an Or, And or Not node of the tree x has a null child.
RECURSIVE NullChild(_)
NullChild(x) ==
    /\ x # RawNull
    /\ x.t \in {"Or", "And", "Not"}
    /\ \/ x.l = RawNull
       \/ x.t # "Not" /\ x.r = RawNull
       \/ NullChild(x.l)
       \/ x.t # "Not" /\ NullChild(x.r)

\* C24 as stated: for every raw tree convert_expression returns an Expr,
\* None for a null root, or an ExprConvertError; a None, List or Range node
\* and an Or/And/Not node with a null child yield an ExprConvertError and
\* no other failure.
C24_ConversionTotal ==
    LastConvert =>
        /\ last.out.kind \in {"Some", "None", "Err"}
        /\ last.out.kind = "None" <=> last.value = RawNull
        /\ (last.value # RawNull /\ last.value.t \in {"None", "List", "Range"}) =>
               last.out.kind = "Err"
        /\ NullChild(last.value) => last.out.kind = "Err"

\* What holds of trees without a null child: the result is None for the
\* null root, an ExprConvertError named after the first None, List or
\* Range node, and an Expr otherwise.
C24_ConversionOfFullTrees ==
    (LastConvert /\ ~NullChild(last.value)) =>
        /\ last.out.kind \in {"Some", "None", "Err"}
        /\ last.out.kind = "None" <=> last.value = RawNull
        /\ (last.value # RawNull /\ last.value.t \in {"None", "List", "Range"}) =>
               (last.out.kind = "Err" /\ last.out.err = last.value.t)
        /\ last.out.kind = "Err" => last.out.err \in {"None", "List", "Range"}

\* A List node under an And: the error of the inner node.
C24_WitnessError ==
    /\ LastConvert
    /\ last.value.t = "And"
    /\ last.out.kind = "Err"
    /\ last.out.err = "List"

(***************************************************************************)
(* Properties of the sweep and of failed calls.                            *)
(***************************************************************************)
\* C25: when set_value returns Ok, a bridge setter was invoked and the sweep
\* ran after it, so that every non-const named symbol holds the values the
\* library calculates from the written user values; when set_value returns
\* an error the sweep did not run.
C25_RecalculationSweep ==
    (last.op = "set_value" /\ pc = "returned") =>
        IF last.ret.kind = "Ok"
        THEN /\ last.swept
             /\ last.calls # <<>>
             /\ \A i \in 1..Len(last.calls) : last.calls[i].ok
             /\ \A s \in SweepTargets(Sch) :
                    /\ tri[s] = KTri(s, Sch, user)
                    /\ visible[s] = KVisible(s, Sch, user)
                    /\ revtri[s] = KRev(s, Sch, user)
        ELSE ~last.swept

\* A Number written to an int symbol: the arm returns the result of the
\* inner call, whose sweep ran.
C25_Witness ==
    /\ last.op = "set_value"
    /\ last.value.arm = "Number"
    /\ last.ret.kind = "Ok"
    /\ last.swept
    /\ GetValue(last.sym, Sch, CS) # last.was

\* A write the library refused: a setter was invoked, no sweep followed.
C25_WitnessRefused ==
    /\ last.op = "set_value"
    /\ last.ret.kind = "AssignmentFailed"
    /\ last.calls # <<>>
    /\ ~last.swept

(***************************************************************************)
(* Properties of the recursive satisfier.                                   *)
(***************************************************************************)
\* The answer of the solver for the constraint of x in the last call.
SolverResult(x) == SimpleSatisfy(Constraint(x, Sch), last.cfg.desired, Sch, CS)

\* The symbols a recursive satisfy visits from the set S: S and, over and
\* over, the targets their solver results assign a value other than No.
RECURSIVE VisitedFrom(_)
VisitedFrom(S) ==
    LET more == UNION {IF SolverResult(x).ok THEN DependsOn(SolverResult(x).m)
                       ELSE {} : x \in S}
    IN  IF more \subseteq S THEN S ELSE VisitedFrom(S \cup more)

\* The last call was a recursive satisfy that returned, and the solver
\* answered for every symbol it visited.
RecursiveSolved ==
    /\ LastSatisfy
    /\ last.cfg.recursive
    /\ pc = "returned"
    /\ \A x \in VisitedFrom({last.sym}) : SolverResult(x).ok

\* The targets to which the results of two different visited symbols assign
\* different values.
Disputed ==
    {k \in Syms :
        \E x, y \in VisitedFrom({last.sym}) :
            /\ x # y
            /\ k \in DOMAIN SolverResult(x).m \cap DOMAIN SolverResult(y).m
            /\ SolverResult(x).m[k] # SolverResult(y).m[k]}

\* C26 as stated: when the solver results of two different visited symbols
\* assign different values to one target, user-assignable or not, a
\* recursive satisfy returns ConflictingAssignment.
C26_CrossSymbolConflict ==
    (RecursiveSolved /\ Disputed # {}) =>
        last.out.kind = "ConflictingAssignment"

\* What the code detects: a disputed target with a prompt gives
\* ConflictingAssignment, whose fields name such a target.
C26_AssignableConflict ==
    (RecursiveSolved /\ \E k \in Disputed : Sch[k].prompts > 0) =>
        /\ last.out.kind = "ConflictingAssignment"
        /\ \A c \in last.out.conf : c[1] \in Disputed /\ Sch[c[1]].prompts > 0

\* A dispute over a target with a prompt, reported.
C26_WitnessReported ==
    /\ RecursiveSolved
    /\ Disputed = {"C"}
    /\ Sch["C"].prompts > 0
    /\ last.out.kind = "ConflictingAssignment"

\* C27: every name in an Ok result of satisfy has prompt_count > 0; in
\* recursive mode the list holds exactly the assignable assignments of the
\* solver results of every visited symbol, the visited symbols including
\* each promptless target a result assigned a value other than No.
C27_NonAssignableStripped ==
    (LastSatisfy /\ last.out.kind = "Ok") =>
        /\ \A i \in 1..Len(last.out.list) : Sch[last.out.list[i][1]].prompts > 0
        /\ last.cfg.recursive =>
               ListPairs(last.out.list) =
                   UNION {MapPairs(Retain(SolverResult(x).m, Sch)) :
                             x \in VisitedFrom({last.sym})}
        /\ ~last.cfg.recursive =>
               ListPairs(last.out.list) = MapPairs(Retain(SolverResult(last.sym).m, Sch))

\* A promptless target, assigned Yes by the result of the seed, is absent
\* from the list, which holds what the constraint of that target needs.
C27_Witness ==
    /\ LastSatisfy
    /\ last.cfg.recursive
    /\ last.out.kind = "Ok"
    /\ \E x \in DependsOn(SolverResult(last.sym).m) :
           /\ Sch[x].prompts = 0
           /\ \A i \in 1..Len(last.out.list) : last.out.list[i][1] # x
           /\ \E i \in 1..Len(last.out.list) :
                  /\ last.out.list[i][1] \in DOMAIN SolverResult(x).m
                  /\ last.out.list[i][1] \notin DOMAIN SolverResult(last.sym).m

(***************************************************************************)
(* Properties of the tracked satisfy.                                      *)
(***************************************************************************)
\* A step of ak.symbol_satisfy_and_set that reached the solver and returned.
SatisfyAndSetStep ==
    /\ pc = "script"
    /\ last'.op = "satisfy_and_set"
    /\ pc' = "script"

\* C28: when the solver succeeds, satisfy_track_error appends nothing (the
\* transactions of the call are those of its set_value_tracked calls, none
\* a SatisfyFailed); when the solver fails, the call appends exactly one
\* Transaction, with error SatisfyFailed wrapping that SolveError and
\* value_before = value_after = the current value, and sets no symbol.
C28_TrackedSatisfy ==
    [][SatisfyAndSetStep =>
          IF last'.out.kind = "Ok"
          THEN /\ Len(history') >= Len(history) + Len(last'.out.list)
               /\ SubSeq(history', 1, Len(history)) = history
               /\ \A i \in (Len(history) + 1)..Len(history') :
                      history'[i].error # "SatisfyFailed"
          ELSE /\ Len(history') = Len(history) + 1
               /\ SubSeq(history', 1, Len(history)) = history
               /\ history'[Len(history')].symbol = last'.sym
               /\ history'[Len(history')].error = "SatisfyFailed"
               /\ history'[Len(history')].wraps = last'.out.kind
               /\ history'[Len(history')].value = last'.value
               /\ history'[Len(history')].value_before = GetValue(last'.sym, Sch, CS)
               /\ history'[Len(history')].value_after = GetValue(last'.sym, Sch, CS)
               /\ <<user, ustr, tri, visible, revtri>>' = <<user, ustr, tri, visible, revtri>>
      ]_vars

\* A scripted satisfy-and-set whose solver failed, journaled.
C28_Witness ==
    /\ last.op = "satisfy_and_set"
    /\ last.out.kind \notin {"Ok", "none"}
    /\ history # <<>>
    /\ history[Len(history)].error = "SatisfyFailed"
    /\ history[Len(history)].wraps = last.out.kind

\* A scripted satisfy-and-set whose solver succeeded and whose assignments
\* were set.
C28_WitnessSolved ==
    /\ last.op = "satisfy_and_set"
    /\ last.out.kind = "Ok"
    /\ Len(last.out.list) >= 1
    /\ Len(history) >= 2
    /\ \A i \in 1..Len(history) : history[i].error = "Ok"

(***************************************************************************)
(* Properties of failed assignments.                                       *)
(***************************************************************************)
\* The errors of set_value that precede every bridge call.
EarlyErrors ==
    {"IsConst", "IsChoice", "CannotSetManually", "UnknownType", "InvalidBoolean",
     "InvalidTristate", "InvalidInt", "InvalidHex", "InvalidValue", "OutOfRange",
     "MustBeSelected", "UnmetDependencies", "RequiredByOther", "InvalidVisibility",
     "ModulesNotEnabled"}

\* C29: when set_value returns an error other than AssignmentFailed, no
\* bridge setter was invoked and no user value and no calculated value of
\* any symbol differs from before the call, the hint of UnmetDependencies
\* included.
C29_FailedCallChangesNothing ==
    [][(last'.op = "set_value" /\ pc' = "returned"
            /\ last'.ret.kind \notin {"Ok", "AssignmentFailed"}) =>
          /\ last'.ret.kind \in EarlyErrors
          /\ last'.calls = <<>>
          /\ ~last'.swept
          /\ <<user, ustr, tri, visible, revtri>>' = <<user, ustr, tri, visible, revtri>>
          /\ Sch[last'.sym].type # "Unknown" => GetValue(last'.sym, Sch, CS) = last'.was
      ]_vars

\* A write above the visibility of its target, refused with a hint that
\* names an assignment.
C29_Witness ==
    /\ last.op = "set_value"
    /\ last.ret.kind = "UnmetDependencies"
    /\ \E h \in last.ret.hint : h.kind = "Ok" /\ h.list # <<>>
    /\ last.calls = <<>>

\* C29, the journal: a transaction whose error is neither absent nor
\* AssignmentFailed has value_before = value_after, and no reassignment
\* warning of the validation is raised for it.
C29_FailedTransactionSilent ==
    /\ \A i \in 1..Len(history) :
           history[i].error \notin {"Ok", "AssignmentFailed"} =>
               history[i].value_before = history[i].value_after
    /\ \A w \in run.warned : history[w[1]].error \in {"Ok", "AssignmentFailed"}

\* A validated journal in which a failed transaction follows a successful
\* one on the same symbol, and no warning was raised.
C29_WitnessSilent ==
    /\ Validated
    /\ Len(history) = 2
    /\ history[1].symbol = history[2].symbol
    /\ history[1].error = "Ok"
    /\ history[2].error \in EarlyErrors
    /\ run.warned = {}

(***************************************************************************)
(* Properties of SimpleSolver.                                              *)
(***************************************************************************)
LastSolve == last.op = "solve"

\* The C side with the tristate values of the symbols of m overwritten.
Overwritten(m) ==
    [CS EXCEPT !.tri = [s \in Syms |-> IF s \in DOMAIN m THEN m[s] ELSE tri[s]]]

\* The symbols an expression reads, constants aside.
RECURSIVE SymbolsIn(_)
SymbolsIn(e) ==
    CASE e.k = "Const" -> {}
      [] e.k \in {"And", "Or"} -> SymbolsIn(e.l) \cup SymbolsIn(e.r)
      [] e.k = "Not" -> SymbolsIn(e.l)
      [] e.k = "Symbol" -> {e.a}
      [] OTHER -> {e.a, e.b} \ {"KY", "KM", "KN"}

\* C30 as stated: when SimpleSolver.satisfy(E, d) returns a map M, E
\* evaluates to at least d once the tristate values of the symbols of M
\* are overwritten, also when one symbol occurs negated and un-negated in
\* different conjuncts.
C30_SolverSound ==
    (LastSolve /\ last.out.ok) =>
        /\ Eval(last.value, Sch, Overwritten(last.out.m)).ok
        /\ Eval(last.value, Sch, Overwritten(last.out.m)).v >= last.cfg.desired

\* What holds: the map is sound for a terminal, a negated terminal, an Or,
\* and an And whose two conjuncts read different symbols.
C30_SoundOnDisjointConjuncts ==
    (LastSolve /\ last.out.ok
        /\ (last.value.k = "And" =>
                SymbolsIn(last.value.l) \cap SymbolsIn(last.value.r) = {})) =>
        /\ Eval(last.value, Sch, Overwritten(last.out.m)).ok
        /\ Eval(last.value, Sch, Overwritten(last.out.m)).v >= last.cfg.desired

\* An And over two symbols solved by a map that assigns both.
C30_WitnessSolved ==
    /\ LastSolve
    /\ last.value = EAnd(ESym("A"), ESym("B"))
    /\ last.out.ok
    /\ DOMAIN last.out.m = {"A", "B"}

====
